---- MODULE Spec2Model ----
(***************************************************************************)
(* A state-machine model of the research assistant agent                   *)
(* (formilan/kaggle-research-agent): conversation memory, research memory, *)
(* the LLM clients and their factory, the tool registry and tools, the     *)
(* task orchestrator, the evaluator and the agent's research workflow.     *)
(*                                                                         *)
(* Python strings are TLA+ strings; lists are sequences; dicts with fixed  *)
(* keys are records; None is the model value None.                         *)
(***************************************************************************)
EXTENDS Integers, Sequences, FiniteSets, TLC

VARIABLES
    \* ---- ConversationMemory (src/src/memory.py) ----
    messages,        \* self.messages: sequence of Message records
    max_messages,    \* self.max_messages
    metadata,        \* self.metadata: a dict, as a set of <<key, value>> pairs
    file,            \* the conversation file on disk (NoFile when absent)
    clock,           \* number of datetime.now() readings so far
    raised,          \* exception the last operation propagated ("none" if none)
    \* ---- history of the calls made on the memory (for the claims) ----
    added,           \* every Message created by add_message since construction
    only_adds,       \* TRUE while neither clear nor load has been called
    \* ---- LLM client (src/src/llm_client.py) ----
    environ,         \* os.environ: PROJECT_ID and LOCATION (None when unset)
    llm,             \* the client object: kind, call_count, available, mock_client
    llm_obs,         \* what the last factory/generate call did and returned, and
                     \* per-client counts of remote invocations and fallbacks
    \* ---- ResearchMemory (src/src/memory.py) ----
    research_memory, \* findings, sources and topics
    rm_adds,         \* add_finding calls since construction or the last clear
    \* ---- ToolRegistry, TaskOrchestrator, AgentEvaluator ----
    tools,           \* ToolRegistry.tools: the registered Tool objects, in order
    execution_log,   \* TaskOrchestrator.execution_log
    metrics,         \* AgentEvaluator.metrics
    \* ---- one research(query) call of ResearchAssistantAgent ----
    pc,              \* the statement of research() to run next ("idle": no call)
    query,           \* its argument
    plan,            \* its locals, as each statement assigns them
    execution_results,
    synthesis,
    response,
    evaluation,
    response_time,
    returned,        \* the bundle the last completed call returned
    calls,           \* number of completed research() calls
    \* ---- a ToolRegistry used directly (src/src/tools.py) ----
    registered,      \* the tool names given to register, in call order
    tool_obs,        \* the last registry or tool call and what it returned
    \* ---- a MockLLMClient used directly (src/src/llm_client.py) ----
    mock_calls,      \* every generate call made: its prompt, its text, call_count after it
    \* ---- the runner (src/main.py) ----
    argv,            \* sys.argv[1:]
    main_pc,         \* where the runner is
    agent_built,     \* TRUE once ResearchAssistantAgent(...) has been constructed
    line,            \* the stripped line read by input()
    inputs_read,     \* number of input() calls that returned a line
    research_calls,  \* the queries passed to agent.research, in call order
    todo,            \* the queries a scripted demo has still to run
    output,          \* what the runner printed
    session_files,   \* what each save_session call wrote
    \* ---- a diagnostic script (src/test_*.py) ----
    diag             \* the script run, whether service-account.json exists, its progress

cmVars == <<messages, max_messages, metadata, file, clock, raised, added, only_adds>>
llmVars == <<environ, llm, llm_obs>>
rmVars == <<research_memory, rm_adds>>
agentVars == <<tools, execution_log, metrics, pc, query, plan, execution_results,
               synthesis, response, evaluation, response_time, returned, calls>>

toolVars == <<registered, tool_obs>>
mainVars == <<argv, main_pc, agent_built, line, inputs_read, research_calls, todo,
              output, session_files>>

extVars == <<toolVars, mock_calls, mainVars, diag>>

vars == <<cmVars, llmVars, rmVars, agentVars, extVars>>

None == "None"
NoFile == [exists |-> FALSE, messages |-> <<>>, has_metadata |-> FALSE, metadata |-> {}]

\* no registry or tool call observed yet
NoToolObs ==
    [op |-> "none", name |-> "", present |-> FALSE, executions |-> 0,
     total_time |-> 0, avg_time |-> 0, listed |-> 0, result |-> ""]

\* no diagnostic script is run
NoDiag ==
    [script |-> "none", sa_file |-> FALSE, pc |-> "none", steps |-> <<>>,
     result |-> "none", credentials_env |-> None, output |-> <<>>]

\* the parts of the state a specification does not use
ExtIdle ==
    /\ registered = <<>>
    /\ tool_obs = NoToolObs
    /\ mock_calls = <<>>
    /\ argv = <<>>
    /\ main_pc = "none"
    /\ agent_built = FALSE
    /\ line = ""
    /\ inputs_read = 0
    /\ research_calls = <<>>
    /\ todo = <<>>
    /\ output = <<>>
    /\ session_files = <<>>
    /\ diag = NoDiag

-----------------------------------------------------------------------------
(* Bounds of the model *)

MaxAdds == 5
MaxMaxMessages == 3
MaxCalls == 3
MaxResearch == 2
MaxFindings == 3
MaxEvals == 1
MaxRegistrations == 2
MaxExecutions == 2
MaxInputs == 2
\* calls of WebSearchTool.execute with chosen arguments
MaxSearches == 2
\* evaluations logged between the reads of the evaluator's log
MaxLogged == 2
\* research calls of a long session: one more than fills the conversation memory
MaxTurns == 26

\* ConversationMemory(max_messages=50) in ResearchAssistantAgent.__init__
ConvMaxMessages == 50

-----------------------------------------------------------------------------
(* Python built-ins *)

Min(a, b) == IF a < b THEN a ELSE b
Max(a, b) == IF a > b THEN a ELSE b

\* lst[-k:] for k >= 0: Python reads -0 as 0, so lst[-0:] is the whole list
SliceLast(lst, k) ==
    IF k = 0 THEN lst
    ELSE SubSeq(lst, Max(1, Len(lst) - k + 1), Len(lst))

\* lst[:k]: a negative k counts from the end
SliceFirst(lst, k) ==
    IF k >= 0 THEN SubSeq(lst, 1, Min(k, Len(lst)))
    ELSE SubSeq(lst, 1, Max(0, Len(lst) + k))

\* [f(x) for x in lst]
RECURSIVE SelectRole(_, _)
SelectRole(lst, role) ==
    IF lst = <<>> THEN <<>>
    ELSE (IF Head(lst).role = role THEN <<Head(lst)>> ELSE <<>>)
         \o SelectRole(Tail(lst), role)

\* str.lower() on ASCII text
UpperChars == "ABCDEFGHIJKLMNOPQRSTUVWXYZ"
LowerChars == "abcdefghijklmnopqrstuvwxyz"

LowerChar(c) ==
    IF \E i \in 1..Len(UpperChars) : SubSeq(UpperChars, i, i) = c
    THEN LET i == CHOOSE j \in 1..Len(UpperChars) : SubSeq(UpperChars, j, j) = c
         IN  SubSeq(LowerChars, i, i)
    ELSE c

RECURSIVE lower(_)
lower(s) ==
    IF Len(s) = 0 THEN ""
    ELSE IF Len(s) = 1 THEN LowerChar(s)
    ELSE LET h == Len(s) \div 2
         IN  lower(SubSeq(s, 1, h)) \o lower(SubSeq(s, h + 1, Len(s)))

\* sub in s, for strings
StrIn(sub, s) ==
    \E i \in 0..(Len(s) - Len(sub)) : SubSeq(s, i + 1, i + Len(sub)) = sub

\* s[:k] for a string
StrFirst(s, k) == SubSeq(s, 1, Min(k, Len(s)))

-----------------------------------------------------------------------------
(* Message *)

\* datetime.isoformat() / datetime.fromisoformat(): the text form of a time
IsoFormat(t) == <<"iso", t>>
FromIsoFormat(s) == s[2]

Message(role, content, timestamp) ==
    [role |-> role, content |-> content, timestamp |-> timestamp]

to_dict(msg) ==
    [role |-> msg.role, content |-> msg.content,
     timestamp |-> IsoFormat(msg.timestamp)]

from_dict(data) ==
    Message(data.role, data.content, FromIsoFormat(data.timestamp))

MapToDict(msgs) == [i \in 1..Len(msgs) |-> to_dict(msgs[i])]
MapFromDict(ds) == [i \in 1..Len(ds) |-> from_dict(ds[i])]

-----------------------------------------------------------------------------
(* ConversationMemory *)

\* the history is never trimmed
AddMessageNeverTrims(msgs, max, msg) == Append(msgs, msg)

\* the list add_message leaves in self.messages
AddMessageDropNewest(msgs, max, msg) ==
    LET appended == Append(msgs, msg)
    IN  IF Len(appended) > max THEN SliceFirst(appended, max) ELSE appended

add_message_result(msgs, max, msg) ==
    LET appended == Append(msgs, msg)
    IN  IF Len(appended) > max THEN SliceLast(appended, max) ELSE appended

get_summary_stats(msgs) ==
    IF msgs = <<>> THEN [message_count |-> 0]
    ELSE [message_count |-> Len(msgs),
          user_messages |-> Len(SelectRole(msgs, "user")),
          assistant_messages |-> Len(SelectRole(msgs, "assistant")),
          first_message_time |-> IsoFormat(msgs[1].timestamp),
          last_message_time |-> IsoFormat(msgs[Len(msgs)].timestamp)]

-----------------------------------------------------------------------------
(* MockLLMClient *)

MockSearchText ==
    "Based on my search, here are the key findings:\n1. The topic has several important aspects\n2. Recent developments show significant progress\n3. Expert consensus indicates this is a growing field\n\nWould you like me to dive deeper into any specific area?"

MockSummaryText ==
    "Summary of key points:\n- Main concept: The subject matter is complex but well-documented\n- Key findings: Multiple sources confirm the central thesis\n- Implications: This has broad applications across various domains\n- Conclusion: Further research is recommended"

MockAnalysisText ==
    "Analysis:\n\nStrengths:\n- Well-supported by evidence\n- Clear methodology\n- Consistent results\n\nWeaknesses:\n- Limited scope in some areas\n- Could benefit from additional data\n- Some assumptions need validation\n\nOverall assessment: The research is solid with room for expansion."

MockGenericText(prompt) ==
    "I understand you're asking about: " \o StrFirst(prompt, 100) \o "...\n\nLet me provide a comprehensive response:\n- This is a well-researched topic with significant documentation\n- There are multiple perspectives to consider\n- The evidence suggests a nuanced understanding is necessary\n\nWould you like me to explore any specific aspect in more detail?"

\* the summary template tried before the key findings template
MockTextSummaryFirst(prompt) ==
    LET prompt_lower == lower(prompt)
    IN  IF StrIn("summarize", prompt_lower) \/ StrIn("summary", prompt_lower)
        THEN MockSummaryText
        ELSE IF StrIn("search", prompt_lower) \/ StrIn("find", prompt_lower)
        THEN MockSearchText
        ELSE IF StrIn("analyze", prompt_lower) \/ StrIn("analysis", prompt_lower)
        THEN MockAnalysisText
        ELSE MockGenericText(prompt)

\* the text MockLLMClient.generate returns for a prompt
MockText(prompt) ==
    LET prompt_lower == lower(prompt)
    IN  IF StrIn("search", prompt_lower) \/ StrIn("find", prompt_lower)
        THEN MockSearchText
        ELSE IF StrIn("summarize", prompt_lower) \/ StrIn("summary", prompt_lower)
        THEN MockSummaryText
        ELSE IF StrIn("analyze", prompt_lower) \/ StrIn("analysis", prompt_lower)
        THEN MockAnalysisText
        ELSE MockGenericText(prompt)

-----------------------------------------------------------------------------
(* Client objects.  One record shape serves both classes; a MockLLMClient   *)
(* uses kind and call_count only.                                           *)

NoClient ==
    [kind |-> "none", call_count |-> 0, available |-> FALSE,
     has_mock_client |-> FALSE, mock_call_count |-> 0,
     project_id |-> None, location |-> None, model_name |-> None]

\* MockLLMClient()
MockLLMClient ==
    [NoClient EXCEPT !.kind = "mock"]

\* VertexAIClient(project_id, location): init_ok is FALSE when the import,
\* vertexai.init or GenerativeModel raised
VertexAIClient(project_id, location, init_ok) ==
    [kind |-> "vertex", call_count |-> 0, available |-> init_ok,
     has_mock_client |-> ~init_ok, mock_call_count |-> 0,
     project_id |-> project_id, location |-> location,
     model_name |-> "gemini-2.5-pro"]

\* MockLLMClient.generate: the client afterwards and the text returned
\* the text carries the number of the call
MockGenerateNumbered(c, prompt) ==
    [client |-> [c EXCEPT !.call_count = @ + 1],
     text |-> MockText(prompt) \o " (" \o ToString(c.call_count + 1) \o ")",
     raised |-> "none", remote_invoked |-> FALSE, remote_raised |-> FALSE,
     fell_back |-> FALSE, mock_created |-> FALSE]

mock_generate(c, prompt) ==
    [client |-> [c EXCEPT !.call_count = @ + 1],
     text |-> MockText(prompt),
     raised |-> "none", remote_invoked |-> FALSE, remote_raised |-> FALSE,
     fell_back |-> FALSE, mock_created |-> FALSE]

\* outcomes of model.generate_content(prompt) followed by response.text
RemoteTexts == {"", "Remote model answer."}
RemoteOutcomes ==
    [kind : {"ok"}, text : RemoteTexts]
    \cup [kind : {"raise_call", "raise_text"}, text : {""}]

\* a per-call failure wrongly recorded as permanent unavailability
VertexGenerateStickyFailure(c, prompt, outcome) ==
    LET counted == [c EXCEPT !.call_count = @ + 1]
    IN  IF ~c.available
        THEN [client |-> [counted EXCEPT !.mock_call_count = @ + 1],
              text |-> MockText(prompt),
              raised |-> "none", remote_invoked |-> FALSE, remote_raised |-> FALSE,
              fell_back |-> TRUE, mock_created |-> FALSE]
        ELSE IF outcome.kind = "ok"
        THEN [client |-> counted, text |-> outcome.text,
              raised |-> "none", remote_invoked |-> TRUE, remote_raised |-> FALSE,
              fell_back |-> FALSE, mock_created |-> FALSE]
        ELSE [client |-> [counted EXCEPT !.available = FALSE,
                                         !.has_mock_client = TRUE,
                                         !.mock_call_count =
                                             IF c.has_mock_client THEN @ + 1 ELSE 1],
              text |-> MockText(prompt),
              raised |-> "none", remote_invoked |-> TRUE, remote_raised |-> TRUE,
              fell_back |-> TRUE, mock_created |-> ~c.has_mock_client]

\* a fallback mock constructed afresh on every failed call
VertexGenerateNewMockEachTime(c, prompt, outcome) ==
    LET counted == [c EXCEPT !.call_count = @ + 1]
    IN  IF ~c.available
        THEN [client |-> [counted EXCEPT !.mock_call_count = @ + 1],
              text |-> MockText(prompt),
              raised |-> "none", remote_invoked |-> FALSE, remote_raised |-> FALSE,
              fell_back |-> TRUE, mock_created |-> FALSE]
        ELSE IF outcome.kind = "ok"
        THEN [client |-> counted, text |-> outcome.text,
              raised |-> "none", remote_invoked |-> TRUE, remote_raised |-> FALSE,
              fell_back |-> FALSE, mock_created |-> FALSE]
        ELSE [client |-> [counted EXCEPT !.has_mock_client = TRUE,
                                         !.mock_call_count = 1],
              text |-> MockText(prompt),
              raised |-> "none", remote_invoked |-> TRUE, remote_raised |-> TRUE,
              fell_back |-> TRUE, mock_created |-> TRUE]

\* VertexAIClient.generate
vertex_generate(c, prompt, outcome) ==
    LET counted == [c EXCEPT !.call_count = @ + 1]
    IN  IF ~c.available
        THEN \* return self.mock_client.generate(prompt, **kwargs)
             [client |-> [counted EXCEPT !.mock_call_count = @ + 1],
              text |-> MockText(prompt),
              raised |-> "none", remote_invoked |-> FALSE, remote_raised |-> FALSE,
              fell_back |-> TRUE, mock_created |-> FALSE]
        ELSE IF outcome.kind = "ok"
        THEN \* return resp.text
             [client |-> counted, text |-> outcome.text,
              raised |-> "none", remote_invoked |-> TRUE, remote_raised |-> FALSE,
              fell_back |-> FALSE, mock_created |-> FALSE]
        ELSE \* except Exception: lazily create the mock, return its text
             [client |-> [counted EXCEPT !.has_mock_client = TRUE,
                                         !.mock_call_count =
                                             IF c.has_mock_client THEN @ + 1 ELSE 1],
              text |-> MockText(prompt),
              raised |-> "none", remote_invoked |-> TRUE, remote_raised |-> TRUE,
              fell_back |-> TRUE, mock_created |-> ~c.has_mock_client]

\* client.generate(prompt), whichever class the client is
llm_generate(c, prompt, outcome) ==
    IF c.kind = "mock" THEN mock_generate(c, prompt)
    ELSE vertex_generate(c, prompt, outcome)

\* os.getenv(name, default)
GetEnv(env, name, default) == IF env[name] = None THEN default ELSE env[name]

\* Python truthiness of an optional string
Truthy(v) == v # None /\ v # ""

\* an unknown mode treated as "auto"
CreateClientLenient(mode, env, init_ok) ==
    IF mode = "mock" THEN [client |-> MockLLMClient, raised |-> "none"]
    ELSE IF ~Truthy(GetEnv(env, "PROJECT_ID", None))
    THEN [client |-> MockLLMClient, raised |-> "none"]
    ELSE [client |-> VertexAIClient(GetEnv(env, "PROJECT_ID", None),
                                    GetEnv(env, "LOCATION", "us-central1"), init_ok),
          raised |-> "none"]

\* create_llm_client(mode)
create_llm_client(mode, env, init_ok) ==
    IF mode = "mock"
    THEN [client |-> MockLLMClient, raised |-> "none"]
    ELSE IF mode = "vertex" \/ mode = "auto"
    THEN LET project_id == GetEnv(env, "PROJECT_ID", None)
             location == GetEnv(env, "LOCATION", "us-central1")
         IN  IF ~Truthy(project_id)
             THEN [client |-> MockLLMClient, raised |-> "none"]
             ELSE [client |-> VertexAIClient(project_id, location, init_ok),
                   raised |-> "none"]
    ELSE [client |-> NoClient, raised |-> "ValueError"]

Environments ==
    [PROJECT_ID : {None, "", "my-project"}, LOCATION : {None, "europe-west4"}]

Modes == {"mock", "vertex", "auto", "Mock", "gemini", ""}

Prompts == {"Search the web for cats", "Please SUMMARIZE this", "Run an analysis",
            "Hello there", ""}

NoObs ==
    [op |-> "none", mode |-> "", init_raised |-> FALSE, created |-> "none",
     prompt |-> "", text |-> None, remote_invoked |-> FALSE, remote_raised |-> FALSE,
     remote_calls |-> 0, fallbacks |-> 0, mocks_created |-> 0]

\* the observation record after a generate call on the current client
ObserveGenerate(obs, prompt, r) ==
    [obs EXCEPT !.op = "generate", !.prompt = prompt, !.text = r.text,
                !.remote_invoked = r.remote_invoked,
                !.remote_raised = r.remote_raised,
                !.remote_calls = @ + (IF r.remote_invoked THEN 1 ELSE 0),
                !.fallbacks = @ + (IF r.fell_back THEN 1 ELSE 0),
                !.mocks_created = @ + (IF r.mock_created THEN 1 ELSE 0)]

-----------------------------------------------------------------------------
(* ResearchMemory *)

NewResearchMemory == [findings |-> <<>>, sources |-> <<>>, topics |-> <<>>]

\* x in lst
InSeq(x, lst) == \E i \in 1..Len(lst) : lst[i] = x

\* add_finding without the membership test
AddFindingNoDedup(rm, finding, source, topic, now) ==
    [findings |-> Append(rm.findings,
                         [content |-> finding, source |-> source, topic |-> topic,
                          timestamp |-> IsoFormat(now)]),
     sources |-> IF Truthy(source) THEN Append(rm.sources, source) ELSE rm.sources,
     topics |-> IF Truthy(topic) THEN Append(rm.topics, topic) ELSE rm.topics]

\* ResearchMemory.add_finding
add_finding(rm, finding, source, topic, now) ==
    [findings |-> Append(rm.findings,
                         [content |-> finding, source |-> source, topic |-> topic,
                          timestamp |-> IsoFormat(now)]),
     sources |-> IF Truthy(source) /\ ~InSeq(source, rm.sources)
                 THEN Append(rm.sources, source) ELSE rm.sources,
     topics |-> IF Truthy(topic) /\ ~InSeq(topic, rm.topics)
                THEN Append(rm.topics, topic) ELSE rm.topics]

-----------------------------------------------------------------------------
(* Tools *)

\* any(word in s for word in words)
AnyIn(words, s) == \E w \in words : StrIn(w, s)

\* a Tool object after Tool.__init__
Tool(name, description) ==
    [name |-> name, description |-> description,
     execution_count |-> 0, total_execution_time |-> 0]

WebSearchTool ==
    Tool("web_search", "Search the web for information on a given query")
DocumentReaderTool ==
    Tool("document_reader", "Read and extract key information from documents")
DataAnalysisTool ==
    Tool("data_analysis", "Analyze and synthesize information from multiple sources")

\* Tool._track_execution, elapsed being time.time() - start_time
\* the elapsed time is added but the call is not counted
TrackExecutionTimeOnly(tool, elapsed) ==
    [tool EXCEPT !.total_execution_time = @ + elapsed]

track_execution(tool, elapsed) ==
    [tool EXCEPT !.execution_count = @ + 1,
                 !.total_execution_time = @ + elapsed]

WebSearchNvidia ==
    << [title |-> "NVIDIA Stock (NVDA) Real-Time Quote - Nov 2025",
        url |-> "https://finance.yahoo.com/quote/NVDA",
        snippet |-> "NVIDIA Corporation (NVDA) current price: $495.20. Last 30 days: +12.5% (+$55.10). High: $505.30, Low: $440.10. Strong performance driven by AI chip demand and data center growth. Volume: 45.2M shares."],
       [title |-> "NVIDIA Stock Analysis - AI Boom Continues",
        url |-> "https://www.bloomberg.com/nvidia-analysis",
        snippet |-> "NVIDIA shares surge 12.5% in past month reaching $495.20. Analysts cite robust Q4 earnings, new H200 GPU launch, and partnerships with Microsoft, Google for cloud AI. Price target raised to $550."],
       [title |-> "Why NVIDIA Stock is Up This Month - Market Watch",
        url |-> "https://marketwatch.com/nvidia-november",
        snippet |-> "Key factors driving NVIDIA's 12.5% gain: (1) Q4 revenue beat at $18.1B, (2) Data center revenue up 41%, (3) New AI partnerships announced, (4) Strong guidance for 2025. Stock outperforming S&P 500."] >>

WebSearchTesla ==
    << [title |-> "Tesla Inc (TSLA) Stock Price - Real-Time",
        url |-> "https://finance.yahoo.com/quote/TSLA",
        snippet |-> "Tesla (TSLA) current: $242.80. Last 30 days: +8.3% (+$18.60). Range: $224.20-$251.50. Model 3 sales strong in Europe. Cybertruck production ramping up. Volume: 98.5M."] >>

WebSearchML ==
    << [title |-> "Machine Learning: Complete Guide 2025",
        url |-> "https://towardsdatascience.com/ml-guide",
        snippet |-> "Machine Learning is a subset of AI enabling systems to learn from data. Key types: Supervised (classification, regression), Unsupervised (clustering), Reinforcement learning. Popular frameworks: TensorFlow, PyTorch, scikit-learn."],
       [title |-> "Latest Advances in ML - November 2025",
        url |-> "https://arxiv.org/ml-advances",
        snippet |-> "Recent breakthroughs: GPT-5 with 10T parameters, diffusion models for video generation, quantum ML algorithms. Growing applications in healthcare, finance, autonomous vehicles."] >>

WebSearchQuantum ==
    << [title |-> "Quantum Computing Explained - 2025 Update",
        url |-> "https://quantumcomputing.com/guide",
        snippet |-> "Quantum computers use qubits for parallel processing via superposition and entanglement. IBM's 1121-qubit processor, Google's error correction breakthrough. Applications: cryptography, drug discovery, optimization."],
       [title |-> "Latest Quantum Computing Developments",
        url |-> "https://nature.com/quantum-news",
        snippet |-> "IBM achieves quantum advantage in chemistry simulations. Microsoft Azure Quantum available commercially. China's photonic quantum computer processes 10^14 samples/sec. Quantum internet prototype tested."] >>

DocumentNvidia ==
    [title |-> "NVIDIA Q4 2025 Financial Results and Market Analysis",
     authors |-> << "Goldman Sachs Research",
                    "Morgan Stanley Analysis Team" >>,
     date |-> "November 10, 2025",
     abstract |-> "NVIDIA reports exceptional Q4 performance with revenue reaching $18.1 billion, driven by unprecedented demand for AI accelerators and data center solutions.",
     key_findings |-> << "Stock price: $495.20 (+12.5% monthly gain, +55.10 points)",
                         "Q4 Revenue: $18.1B, beating estimates by 8.5%",
                         "Data Center segment up 41% YoY, driven by H200 GPU adoption",
                         "New partnerships with Microsoft Azure, Google Cloud, Amazon AWS",
                         "2025 guidance raised: expected revenue growth 30-35%",
                         "Price target consensus: $550 (upside 11% from current)" >>,
     summary |-> "NVIDIA demonstrates exceptional momentum in AI chip market with strong financials, strategic partnerships, and robust guidance. Stock outperforming tech sector with sustained institutional buying."]

DocumentTesla ==
    [title |-> "Tesla Stock Performance Analysis - November 2025",
     authors |-> << "UBS Investment Research" >>,
     date |-> "November 12, 2025",
     abstract |-> "Tesla stock analysis showing 8.3% monthly gain driven by production ramp and European sales.",
     key_findings |-> << "Current price: $242.80 (+8.3% monthly, +18.60 points)",
                         "Cybertruck production ramping: 5,000 units/week achieved",
                         "Model 3/Y sales up 22% in Europe amid EV incentives",
                         "Energy storage deployments at record 3.5 GWh in Q3" >>,
     summary |-> "Tesla showing solid operational execution with production milestones and geographic expansion."]

DocumentML ==
    [title |-> "Machine Learning: State of the Art 2025",
     authors |-> << "Dr. Andrew Ng",
                    "Prof. Yann LeCun",
                    "Dr. Fei-Fei Li" >>,
     date |-> "November 2025",
     abstract |-> "Comprehensive review of machine learning advances including transformer models, multimodal learning, and real-world applications.",
     key_findings |-> << "Transformer architecture dominates: GPT, BERT, Vision Transformers",
                         "Multimodal models (text+image+audio) showing breakthrough results",
                         "Few-shot learning enabling rapid adaptation with minimal data",
                         "ML deployment in production: healthcare diagnostics, autonomous vehicles, financial trading",
                         "Emerging: neuromorphic computing, quantum ML algorithms" >>,
     summary |-> "ML field experiencing rapid innovation with practical applications transforming industries. Focus shifting from model size to efficiency and real-world deployment."]

DocumentQuantum ==
    [title |-> "Quantum Computing Breakthroughs 2025",
     authors |-> << "IBM Quantum Research",
                    "Google Quantum AI" >>,
     date |-> "November 2025",
     abstract |-> "Recent quantum computing advances including error correction, qubit scaling, and commercial applications.",
     key_findings |-> << "IBM achieves 1121-qubit processor with improved coherence times",
                         "Google demonstrates quantum error correction at scale",
                         "Quantum advantage proven for chemistry simulations and cryptography",
                         "Commercial quantum cloud services: IBM Quantum, Azure Quantum, Amazon Braket",
                         "Applications: drug discovery, materials science, financial optimization" >>,
     summary |-> "Quantum computing transitioning from research to practical applications with improved hardware and accessible cloud platforms."]

DocumentGeneric ==
    [title |-> "Research Document Analysis",
     authors |-> << "Research Team" >>,
     date |-> "November 2025",
     abstract |-> "Comprehensive analysis of current topic with latest research and industry insights.",
     key_findings |-> << "Current state: Rapidly evolving field with significant research activity",
                         "Key trends: Innovation accelerating, practical applications emerging",
                         "Industry impact: Major companies investing heavily in development",
                         "Future outlook: Continued growth expected with broader adoption" >>,
     summary |-> "Field showing strong momentum with research breakthroughs translating to practical applications."]

WebSearchGeneric(q) ==
    << [title |-> "Comprehensive Guide: " \o q,
        url |-> "https://example.com/guide",
        snippet |-> "Detailed information about " \o q \o ": Current state, recent developments, expert analysis, and practical applications. Updated November 2025."],
       [title |-> q \o " - Latest Research 2025",
        url |-> "https://example.com/research",
        snippet |-> "Recent advances in " \o q \o ": Key findings from leading institutions, emerging trends, and future outlook. Published by industry experts."],
       [title |-> q \o ": Practical Applications",
        url |-> "https://example.com/applications",
        snippet |-> "Real-world applications of " \o q \o ": Case studies, success stories, implementation guides, and best practices from top companies."] >>

\* WebSearchTool.execute: the dict returned
web_search_execute(q, max_results) ==
    LET query_lower == lower(q)
    IN  IF /\ AnyIn({"nvidia", "nvda"}, query_lower)
           /\ AnyIn({"azioni", "stock", "prezzo", "price", "andamento"}, query_lower)
        THEN [query |-> q,
              results |-> SliceFirst(WebSearchNvidia, max_results),
              count |-> Min(max_results, 3)]
        ELSE IF /\ AnyIn({"tesla", "tsla"}, query_lower)
                /\ AnyIn({"stock", "azioni", "prezzo"}, query_lower)
        THEN [query |-> q,
              results |-> SliceFirst(WebSearchTesla, max_results),
              count |-> Min(max_results, 1)]
        ELSE IF StrIn("machine learning", query_lower) \/ StrIn("ml", query_lower)
        THEN [query |-> q,
              results |-> SliceFirst(WebSearchML, max_results),
              count |-> Min(max_results, 2)]
        ELSE IF StrIn("quantum", query_lower)
        THEN [query |-> q,
              results |-> SliceFirst(WebSearchQuantum, max_results),
              count |-> Min(max_results, 2)]
        ELSE [query |-> q,
              results |-> SliceFirst(WebSearchGeneric(q), max_results),
              count |-> Min(max_results, 3)]

\* DocumentReaderTool.execute: the dict returned
document_reader_execute(document_url, extract_type) ==
    LET url_lower == lower(document_url)
    IN  [url |-> document_url,
         extract_type |-> extract_type,
         content |->
            IF StrIn("nvidia", url_lower) \/ StrIn("nvda", url_lower)
            THEN DocumentNvidia
            ELSE IF StrIn("tesla", url_lower) \/ StrIn("tsla", url_lower)
            THEN DocumentTesla
            ELSE IF StrIn("machine learning", url_lower) \/ StrIn("ml", url_lower)
            THEN DocumentML
            ELSE IF StrIn("quantum", url_lower)
            THEN DocumentQuantum
            ELSE DocumentGeneric]

\* DataAnalysisTool.execute: the dict returned (confidence 0.85 in hundredths)
data_analysis_execute(data, analysis_type) ==
    [analysis_type |-> analysis_type,
     data_points |-> Len(data),
     insights |-> << "Common theme identified across sources",
                     "Contradictions found requiring further investigation",
                     "Strong consensus on key points",
                     "Gaps identified in current research" >>,
     summary |-> "Analysis of " \o ToString(Len(data)) \o " data points reveals consistent patterns and some areas needing further research.",
     confidence |-> 85]

-----------------------------------------------------------------------------
(* ToolRegistry: the dict self.tools as the sequence of its values, in      *)
(* insertion order                                                          *)

NewToolRegistry == <<>>

\* position of the tool registered under name, 0 when there is none
ToolIndex(reg, name) ==
    IF \E i \in 1..Len(reg) : reg[i].name = name
    THEN CHOOSE i \in 1..Len(reg) : reg[i].name = name
    ELSE 0

\* ToolRegistry.get(name) is not None
HasTool(reg, name) == ToolIndex(reg, name) # 0

\* every registration adds an entry
RegisterAlwaysAppends(reg, tool) == Append(reg, tool)

\* ToolRegistry.register: self.tools[tool.name] = tool
register(reg, tool) ==
    IF HasTool(reg, tool.name)
    THEN [reg EXCEPT ![ToolIndex(reg, tool.name)] = tool]
    ELSE Append(reg, tool)

\* ToolRegistry.list_tools
list_tools(reg) ==
    [i \in 1..Len(reg) |-> [name |-> reg[i].name, description |-> reg[i].description]]

\* create_default_tools
create_default_tools ==
    register(register(register(NewToolRegistry, WebSearchTool),
                      DocumentReaderTool), DataAnalysisTool)

\* the registry after the tool registered under name has run once
Executed(reg, name, elapsed) ==
    [reg EXCEPT ![ToolIndex(reg, name)] = track_execution(@, elapsed)]

-----------------------------------------------------------------------------
(* TaskOrchestrator *)

\* sep.join(parts)
RECURSIVE Join(_, _)
Join(sep, parts) ==
    IF Len(parts) = 0 THEN ""
    ELSE IF Len(parts) = 1 THEN parts[1]
    ELSE parts[1] \o sep \o Join(sep, Tail(parts))

\* TaskOrchestrator._format_tools
format_tools(reg) ==
    Join("\n", [i \in 1..Len(reg) |->
                    "- " \o reg[i].name \o ": " \o reg[i].description])

\* TaskOrchestrator._format_findings: finding.get("source", "Unknown") and
\* finding.get("content", "") give the default only when the key is missing;
\* a source of None is formatted as the text None
format_findings(findings) ==
    Join("\n", [i \in 1..Len(findings) |->
                    LET finding == findings[i]
                        source == IF "source" \in DOMAIN finding THEN finding.source
                                  ELSE "Unknown"
                        content == IF "content" \in DOMAIN finding THEN finding.content
                                   ELSE ""
                    IN  ToString(i) \o ". [" \o source \o "] " \o content])

\* [name for each listed tool if name in plan_text.lower()]
RECURSIVE NamesIn(_, _)
NamesIn(listed, text_lower) ==
    IF listed = <<>> THEN <<>>
    ELSE (IF StrIn(Head(listed).name, text_lower) THEN <<Head(listed).name>> ELSE <<>>)
         \o NamesIn(Tail(listed), text_lower)

\* TaskOrchestrator._extract_tool_names
extract_tool_names(reg, plan_text) == NamesIn(list_tools(reg), lower(plan_text))

PlanningPrompt(reg, q) ==
    "You are a research planning assistant. Given the following query,\ncreate a research plan using available tools.\n\nQuery: "
    \o q \o "\n\nAvailable tools:\n" \o format_tools(reg)
    \o "\n\nCreate a step-by-step research plan. Be concise."

SynthesisPrompt(findings) ==
    "You are a research synthesizer. Create a comprehensive summary\nof the following research findings:\n\nFindings:\n"
    \o format_findings(findings)
    \o "\n\nProvide a clear, structured summary that integrates these findings."

\* TaskOrchestrator.plan_research: the plan, the client after the call and
\* the log entry appended
plan_research(client, reg, q, outcome, elapsed, now) ==
    LET g == llm_generate(client, PlanningPrompt(reg, q), outcome)
        p == [query |-> q,
              plan |-> g.text,
              estimated_tools |-> extract_tool_names(reg, g.text),
              planning_time |-> elapsed]
    IN  [plan |-> p, client |-> g.client,
         entry |-> [action |-> "plan_research", timestamp |-> now, result |-> p]]

NoAnalysis ==
    [analysis_type |-> "", data_points |-> 0, insights |-> <<>>, summary |-> "",
     confidence |-> 0]

\* results before any stage has run
EmptyResults(reg, q) ==
    [query |-> q, steps |-> <<>>, tools_used |-> <<>>, findings |-> <<>>,
     has_synthesis |-> FALSE, synthesis |-> NoAnalysis, reg |-> reg]

\* the search runs without being counted by the tool
SearchStageUncounted(st, elapsed) ==
    IF HasTool(st.reg, "web_search")
    THEN LET search_results == web_search_execute(st.query, 5)
         IN  [st EXCEPT
                 !.steps = Append(@, [tool |-> "web_search", result |-> search_results]),
                 !.tools_used = Append(@, "web_search"),
                 !.findings = @ \o [i \in 1..Len(search_results.results) |->
                                        [source |-> search_results.results[i].title,
                                         content |-> search_results.results[i].snippet]]]
    ELSE st

\* Step 1: web search
SearchStage(st, elapsed) ==
    IF HasTool(st.reg, "web_search")
    THEN LET search_results == web_search_execute(st.query, 5)
         IN  [st EXCEPT
                 !.reg = Executed(@, "web_search", elapsed),
                 !.steps = Append(@, [tool |-> "web_search", result |-> search_results]),
                 !.tools_used = Append(@, "web_search"),
                 !.findings = @ \o [i \in 1..Len(search_results.results) |->
                                        [source |-> search_results.results[i].title,
                                         content |-> search_results.results[i].snippet]]]
    ELSE st

\* Step 2: document reading (if search found results)
\* the document stage left out
ReadStageSkipped(st, elapsed) == st

ReadStage(st, elapsed) ==
    IF st.findings # <<>> /\ HasTool(st.reg, "document_reader")
    THEN LET doc_url == st.steps[1].result.results[1].url
             doc_result == document_reader_execute(doc_url, "summary")
             key_findings == doc_result.content.key_findings
         IN  [st EXCEPT
                 !.reg = Executed(@, "document_reader", elapsed),
                 !.steps = Append(@, [tool |-> "document_reader", result |-> doc_result]),
                 !.tools_used = Append(@, "document_reader"),
                 !.findings = @ \o [i \in 1..Len(key_findings) |->
                                        [source |-> "document",
                                         content |-> key_findings[i]]]]
    ELSE st

\* the analysis tool run whether or not there are findings
AnalysisStageUnconditional(st, elapsed) ==
    IF HasTool(st.reg, "data_analysis")
    THEN LET analysis == data_analysis_execute(st.findings, "synthesis")
         IN  [st EXCEPT
                 !.reg = Executed(@, "data_analysis", elapsed),
                 !.steps = Append(@, [tool |-> "data_analysis", result |-> analysis]),
                 !.tools_used = Append(@, "data_analysis"),
                 !.has_synthesis = TRUE,
                 !.synthesis = analysis]
    ELSE st

\* Step 3: synthesis by the data_analysis tool
AnalysisStage(st, elapsed) ==
    IF HasTool(st.reg, "data_analysis") /\ st.findings # <<>>
    THEN LET analysis == data_analysis_execute(st.findings, "synthesis")
         IN  [st EXCEPT
                 !.reg = Executed(@, "data_analysis", elapsed),
                 !.steps = Append(@, [tool |-> "data_analysis", result |-> analysis]),
                 !.tools_used = Append(@, "data_analysis"),
                 !.has_synthesis = TRUE,
                 !.synthesis = analysis]
    ELSE st

\* success reported whatever ran
ExecuteResearchAlwaysSuccess(reg, q, elapsed, total, now) ==
    LET st == AnalysisStage(ReadStage(SearchStage(EmptyResults(reg, q), elapsed),
                                      elapsed), elapsed)
        results == [query |-> q, steps |-> st.steps, tools_used |-> st.tools_used,
                    findings |-> st.findings, has_synthesis |-> st.has_synthesis,
                    synthesis |-> st.synthesis, execution_time |-> total,
                    success |-> TRUE]
    IN  [results |-> results, reg |-> st.reg,
         entry |-> [action |-> "execute_research", timestamp |-> now,
                    result |-> results]]

\* TaskOrchestrator.execute_research: the results, the registry with the
\* tools' counters afterwards, and the log entry appended
execute_research(reg, q, elapsed, total, now) ==
    LET st == AnalysisStage(ReadStage(SearchStage(EmptyResults(reg, q), elapsed),
                                      elapsed), elapsed)
        results == [query |-> q, steps |-> st.steps, tools_used |-> st.tools_used,
                    findings |-> st.findings, has_synthesis |-> st.has_synthesis,
                    synthesis |-> st.synthesis, execution_time |-> total,
                    success |-> Len(st.tools_used) > 0]
    IN  [results |-> results, reg |-> st.reg,
         entry |-> [action |-> "execute_research", timestamp |-> now,
                    result |-> results]]

\* TaskOrchestrator.synthesize_findings: the text and the client afterwards
synthesize_findings(client, findings, outcome) ==
    llm_generate(client, SynthesisPrompt(findings), outcome)

-----------------------------------------------------------------------------
(* AgentEvaluator.  Times are in microseconds, scores in points and the    *)
(* overall score in hundredths of a point.                                 *)

\* round(seconds, 3): to the nearest millisecond
Round3(us) == ((us + 500) \div 1000) * 1000

\* round(total / n, 2), in hundredths
\* the mean cut to hundredths instead of rounded
MeanTruncated(total, n) == (100 * total) \div n

RoundedMean(total, n) == (2 * 100 * total + n) \div (2 * n)

\* thresholds taken inclusively
EvaluateSpeedInclusive(seconds) ==
    IF seconds <= 2000000 THEN 100
    ELSE IF seconds <= 5000000 THEN 80
    ELSE IF seconds <= 10000000 THEN 60
    ELSE 40

evaluate_speed(seconds) ==
    IF seconds < 2000000 THEN 100
    ELSE IF seconds < 5000000 THEN 80
    ELSE IF seconds < 10000000 THEN 60
    ELSE 40

evaluate_completeness(resp) ==
    LET length == Len(resp)
    IN  IF length < 50 THEN 30
        ELSE IF length < 200 THEN 60
        ELSE IF length < 500 THEN 85
        ELSE 95

evaluate_tool_usage(tools_used) ==
    LET count == Len(tools_used)
    IN  IF count = 0 THEN 40
        ELSE IF count = 1 THEN 70
        ELSE IF 2 <= count /\ count <= 3 THEN 100
        ELSE IF count = 4 THEN 75
        ELSE 50

\* AgentEvaluator.evaluate_response: the evaluation appended and returned
evaluate_response(q, resp, seconds, tools_used, now) ==
    LET speed == evaluate_speed(seconds)
        completeness == evaluate_completeness(resp)
        usage == evaluate_tool_usage(tools_used)
    IN  [timestamp |-> IsoFormat(now),
         query |-> q,
         response_length |-> Len(resp),
         response_time |-> Round3(seconds),
         tools_used |-> tools_used,
         tools_count |-> Len(tools_used),
         metrics |-> [response_speed |-> speed,
                      response_completeness |-> completeness,
                      tool_usage_efficiency |-> usage],
         overall_score |-> RoundedMean(speed + completeness + usage, 3)]

-----------------------------------------------------------------------------
(* ResearchAssistantAgent *)

\* str.upper() on ASCII text
UpperChar(c) ==
    IF \E i \in 1..Len(LowerChars) : SubSeq(LowerChars, i, i) = c
    THEN LET i == CHOOSE j \in 1..Len(LowerChars) : SubSeq(LowerChars, j, j) = c
         IN  SubSeq(UpperChars, i, i)
    ELSE c

RECURSIVE upper(_)
upper(s) ==
    IF Len(s) = 0 THEN ""
    ELSE IF Len(s) = 1 THEN UpperChar(s)
    ELSE LET h == Len(s) \div 2
         IN  upper(SubSeq(s, 1, h)) \o upper(SubSeq(s, h + 1, Len(s)))

\* ConversationMemory.get_context_string(last_n)
get_context_string(msgs, last_n) ==
    LET selected == SliceLast(msgs, last_n)
    IN  Join("\n\n", [i \in 1..Len(selected) |->
                          "[" \o upper(selected[i].role) \o "]: "
                          \o selected[i].content])

ResponsePrompt(q, synth, context) ==
    "You are a helpful research assistant. You've been asked to research the following:\n\nQuery: "
    \o q \o "\n\nYou've gathered the following information:\n\n" \o synth
    \o "\n\nPrevious conversation context:\n" \o context
    \o "\n\nProvide a comprehensive, well-structured response to the query. Be informative and cite your findings."

\* ResearchAssistantAgent._generate_response: the text and the client afterwards
generate_response(client, msgs, q, synth, outcome) ==
    llm_generate(client, ResponsePrompt(q, synth, get_context_string(msgs, 5)), outcome)

\* for finding in findings: research_memory.add_finding(content, source, topic)
RECURSIVE StoreFindings(_, _, _, _)
StoreFindings(rm, findings, topic, now) ==
    IF findings = <<>> THEN rm
    ELSE StoreFindings(add_finding(rm, Head(findings).content, Head(findings).source,
                                   topic, now),
                       Tail(findings), topic, now)

NoFindingsText == "No findings to synthesize."

\* Step 3 of research, with the fallback text never used
SynthesizeAlways(client, rm, q, results, outcome, now) ==
    LET g == synthesize_findings(client, results.findings, outcome)
    IN  [synthesis |-> g.text, client |-> g.client,
         memory |-> StoreFindings(rm, results.findings, q, now)]

\* Step 3 of research: the synthesis text, the client and the research
\* memory afterwards
synthesize_step(client, rm, q, results, outcome, now) ==
    IF results.findings # <<>>
    THEN LET g == synthesize_findings(client, results.findings, outcome)
         IN  [synthesis |-> g.text, client |-> g.client,
              memory |-> StoreFindings(rm, results.findings, q, now)]
    ELSE [synthesis |-> NoFindingsText, client |-> client, memory |-> rm]

\* the statements of research() in program order
ResearchSteps ==
    << "add_user_message", "plan_research", "execute_research", "synthesize",
       "generate_response", "add_assistant_message", "evaluate_response", "return" >>

\* the evaluation made before the response is recorded
StepAfterEvaluateEarly(step) ==
    CASE step = "add_user_message" -> "plan_research"
      [] step = "plan_research" -> "execute_research"
      [] step = "execute_research" -> "synthesize"
      [] step = "synthesize" -> "generate_response"
      [] step = "generate_response" -> "evaluate_response"
      [] step = "evaluate_response" -> "add_assistant_message"
      [] step = "add_assistant_message" -> "return"
      [] OTHER -> "idle"

\* the statement research() runs after step; "idle" once it has returned
StepAfter(step) ==
    IF \E i \in 1..(Len(ResearchSteps) - 1) : ResearchSteps[i] = step
    THEN ResearchSteps[(CHOOSE i \in 1..(Len(ResearchSteps) - 1) :
                            ResearchSteps[i] = step) + 1]
    ELSE "idle"

NoPlan == [query |-> "", plan |-> "", estimated_tools |-> <<>>, planning_time |-> 0]

NoResults ==
    [query |-> "", steps |-> <<>>, tools_used |-> <<>>, findings |-> <<>>,
     has_synthesis |-> FALSE, synthesis |-> NoAnalysis, execution_time |-> 0,
     success |-> FALSE]

NoEvaluation ==
    [timestamp |-> IsoFormat(0), query |-> "", response_length |-> 0,
     response_time |-> 0, tools_used |-> <<>>, tools_count |-> 0,
     metrics |-> [response_speed |-> 0, response_completeness |-> 0,
                  tool_usage_efficiency |-> 0],
     overall_score |-> 0]

NoReturn ==
    [query |-> "", response |-> "", plan |-> NoPlan, execution |-> NoResults,
     synthesis |-> "", evaluation |-> NoEvaluation, response_time |-> 0]

LLMIdle ==
    /\ environ = [PROJECT_ID |-> None, LOCATION |-> None]
    /\ llm = NoClient
    /\ llm_obs = NoObs

CMIdle ==
    /\ messages = <<>>
    /\ max_messages = 0
    /\ metadata = {}
    /\ file = NoFile
    /\ clock = 0
    /\ raised = "none"
    /\ added = <<>>
    /\ only_adds = TRUE

RMIdle ==
    /\ research_memory = NewResearchMemory
    /\ rm_adds = 0

AgentIdle ==
    /\ tools = NewToolRegistry
    /\ execution_log = <<>>
    /\ metrics = <<>>
    /\ pc = "idle"
    /\ query = ""
    /\ plan = NoPlan
    /\ execution_results = NoResults
    /\ synthesis = ""
    /\ response = ""
    /\ evaluation = NoEvaluation
    /\ response_time = 0
    /\ returned = NoReturn
    /\ calls = 0

\* the queries put to the agent
Queries ==
    { "Explain the principles of machine learning",
      "What is the NVDA stock price?",
      "" }

\* registries built with ToolRegistry.register from the built-in tools;
\* the agent's constructor builds the first
Registries ==
    { create_default_tools,
      register(NewToolRegistry, DataAnalysisTool),
      register(register(NewToolRegistry, WebSearchTool), DataAnalysisTool),
      register(NewToolRegistry, DocumentReaderTool),
      NewToolRegistry,
      register(NewToolRegistry, WebSearchTool),
      register(register(NewToolRegistry, WebSearchTool), DocumentReaderTool),
      register(register(NewToolRegistry, DocumentReaderTool), DataAnalysisTool) }

\* clients create_llm_client hands the agent
AgentClients ==
    { create_llm_client(mode, [PROJECT_ID |-> "my-project", LOCATION |-> None],
                        init_ok).client :
        mode \in {"mock", "vertex"}, init_ok \in BOOLEAN }

\* what the remote model does on one call of an available hosted client
\* (its failures are explored in SpecLLM)
AgentRemoteOutcomes ==
    { [kind |-> "ok", text |-> "Remote model answer."] }

Unused == [kind |-> "ok", text |-> ""]

OutcomesFor(client) ==
    IF client.kind = "vertex" /\ client.available THEN AgentRemoteOutcomes
    ELSE {Unused}

\* what the remote model can answer to the planning prompt: a plan that names
\* no tool, or one that names two of them
PlanOutcomesFor(client) ==
    IF client.kind = "vertex" /\ client.available
    THEN AgentRemoteOutcomes
         \cup { [kind |-> "ok", text |-> "Plan: run web_search, then data_analysis."] }
    ELSE {Unused}

\* elapsed wall-clock times, in microseconds
ToolTimes == {1000}
ResponseTimes == {1999000}

\* ResearchAssistantAgent.__init__
AgentInit ==
    /\ messages = <<>>
    /\ max_messages = ConvMaxMessages
    /\ metadata = {}
    /\ file = NoFile
    /\ clock = 0
    /\ raised = "none"
    /\ added = <<>>
    /\ only_adds = TRUE
    /\ environ = [PROJECT_ID |-> "my-project", LOCATION |-> None]
    /\ llm \in AgentClients
    /\ llm_obs = NoObs
    /\ research_memory = NewResearchMemory
    /\ rm_adds = 0
    /\ tools \in Registries
    /\ execution_log = <<>>
    /\ metrics = <<>>
    /\ pc = "idle"
    /\ query = ""
    /\ plan = NoPlan
    /\ execution_results = NoResults
    /\ synthesis = ""
    /\ response = ""
    /\ evaluation = NoEvaluation
    /\ response_time = 0
    /\ returned = NoReturn
    /\ calls = 0
    /\ ExtIdle

\* research(query) is called: self.conv_memory.add_message("user", query)
EnterResearch(q) ==
    /\ pc = "idle"
    /\ LET msg == Message("user", q, clock + 1)
       IN  /\ messages' = add_message_result(messages, max_messages, msg)
           /\ added' = Append(added, msg)
    /\ clock' = clock + 1
    /\ query' = q
    /\ pc' = StepAfter("add_user_message")
    /\ UNCHANGED <<max_messages, metadata, file, raised, only_adds>>
    /\ UNCHANGED <<llmVars, rmVars>>
    /\ UNCHANGED <<tools, execution_log, metrics, plan, execution_results, synthesis,
                   response, evaluation, response_time, returned, calls>>
    /\ UNCHANGED extVars

\* a caller that makes at most MaxResearch calls
AddUserMessage(q) ==
    /\ calls < MaxResearch
    /\ EnterResearch(q)

\* plan = self.orchestrator.plan_research(query)
PlanResearch(outcome, elapsed) ==
    /\ pc = "plan_research"
    /\ LET r == plan_research(llm, tools, query, outcome, elapsed, clock + 1)
       IN  /\ plan' = r.plan
           /\ llm' = r.client
           /\ execution_log' = Append(execution_log, r.entry)
    /\ clock' = clock + 1
    /\ pc' = StepAfter("plan_research")
    /\ UNCHANGED <<messages, max_messages, metadata, file, raised, added, only_adds>>
    /\ UNCHANGED <<environ, llm_obs, rmVars>>
    /\ UNCHANGED <<tools, metrics, query, execution_results, synthesis, response,
                   evaluation, response_time, returned, calls>>
    /\ UNCHANGED extVars

\* only the tools the plan names are run
ExecuteResearchFollowsPlan(elapsed) ==
    /\ pc = "execute_research"
    /\ LET named(t) == \E k \in 1..Len(plan.estimated_tools) :
                           plan.estimated_tools[k] = t.name
           r == execute_research(SelectSeq(tools, named), query, elapsed, elapsed,
                                 clock + 1)
       IN  /\ execution_results' = r.results
           /\ execution_log' = Append(execution_log, r.entry)
    /\ clock' = clock + 1
    /\ pc' = StepAfter("execute_research")
    /\ UNCHANGED <<messages, max_messages, metadata, file, raised, added, only_adds>>
    /\ UNCHANGED <<llmVars, rmVars>>
    /\ UNCHANGED <<tools, metrics, query, plan, synthesis, response, evaluation,
                   response_time, returned, calls>>
    /\ UNCHANGED extVars

\* execution_results = self.orchestrator.execute_research(query)
ExecuteResearch(elapsed) ==
    /\ pc = "execute_research"
    /\ LET r == execute_research(tools, query, elapsed, elapsed, clock + 1)
       IN  /\ execution_results' = r.results
           /\ tools' = r.reg
           /\ execution_log' = Append(execution_log, r.entry)
    /\ clock' = clock + 1
    /\ pc' = StepAfter("execute_research")
    /\ UNCHANGED <<messages, max_messages, metadata, file, raised, added, only_adds>>
    /\ UNCHANGED <<llmVars, rmVars>>
    /\ UNCHANGED <<metrics, query, plan, synthesis, response, evaluation,
                   response_time, returned, calls>>
    /\ UNCHANGED extVars

\* Step 3: synthesize the findings and store them in research memory
Synthesize(outcome) ==
    /\ pc = "synthesize"
    /\ LET r == synthesize_step(llm, research_memory, query, execution_results,
                                outcome, clock + 1)
       IN  /\ synthesis' = r.synthesis
           /\ llm' = r.client
           /\ research_memory' = r.memory
           /\ rm_adds' = rm_adds + (Len(r.memory.findings) - Len(research_memory.findings))
    /\ clock' = clock + 1
    /\ pc' = StepAfter("synthesize")
    /\ UNCHANGED <<messages, max_messages, metadata, file, raised, added, only_adds>>
    /\ UNCHANGED <<environ, llm_obs>>
    /\ UNCHANGED <<tools, execution_log, metrics, query, plan, execution_results,
                   response, evaluation, response_time, returned, calls>>
    /\ UNCHANGED extVars

\* Step 4: response = self._generate_response(query, execution_results, synthesis)
GenerateResponse(outcome) ==
    /\ pc = "generate_response"
    /\ LET r == generate_response(llm, messages, query, synthesis, outcome)
       IN  /\ response' = r.text
           /\ llm' = r.client
    /\ pc' = StepAfter("generate_response")
    /\ UNCHANGED cmVars
    /\ UNCHANGED <<environ, llm_obs, rmVars>>
    /\ UNCHANGED <<tools, execution_log, metrics, query, plan, execution_results,
                   synthesis, evaluation, response_time, returned, calls>>
    /\ UNCHANGED extVars

\* self.conv_memory.add_message("assistant", response)
AddAssistantMessage ==
    /\ pc = "add_assistant_message"
    /\ LET msg == Message("assistant", response, clock + 1)
       IN  /\ messages' = add_message_result(messages, max_messages, msg)
           /\ added' = Append(added, msg)
    /\ clock' = clock + 1
    /\ pc' = StepAfter("add_assistant_message")
    /\ UNCHANGED <<max_messages, metadata, file, raised, only_adds>>
    /\ UNCHANGED <<llmVars, rmVars>>
    /\ UNCHANGED <<tools, execution_log, metrics, query, plan, execution_results,
                   synthesis, response, evaluation, response_time, returned, calls>>
    /\ UNCHANGED extVars

\* Step 5: evaluation = self.evaluator.evaluate_response(...), with
\* elapsed = time.time() - start_time
EvaluateResponse(elapsed) ==
    /\ pc = "evaluate_response"
    /\ LET e == evaluate_response(query, response, elapsed,
                                  execution_results.tools_used, clock + 1)
       IN  /\ evaluation' = e
           /\ metrics' = Append(metrics, e)
    /\ response_time' = elapsed
    /\ clock' = clock + 1
    /\ pc' = StepAfter("evaluate_response")
    /\ UNCHANGED <<messages, max_messages, metadata, file, raised, added, only_adds>>
    /\ UNCHANGED <<llmVars, rmVars>>
    /\ UNCHANGED <<tools, execution_log, query, plan, execution_results, synthesis,
                   response, returned, calls>>
    /\ UNCHANGED extVars

\* return {...}: the bundle handed back; the call's locals are gone
Return ==
    /\ pc = "return"
    /\ returned' = [query |-> query, response |-> response, plan |-> plan,
                    execution |-> execution_results, synthesis |-> synthesis,
                    evaluation |-> evaluation, response_time |-> response_time]
    /\ calls' = calls + 1
    /\ pc' = StepAfter("return")
    /\ query' = ""
    /\ plan' = NoPlan
    /\ execution_results' = NoResults
    /\ synthesis' = ""
    /\ response' = ""
    /\ evaluation' = NoEvaluation
    /\ response_time' = 0
    /\ UNCHANGED cmVars
    /\ UNCHANGED <<llmVars, rmVars>>
    /\ UNCHANGED <<tools, execution_log, metrics>>
    /\ UNCHANGED extVars

Next ==
    \/ \E q \in Queries : AddUserMessage(q)
    \/ \E outcome \in PlanOutcomesFor(llm), elapsed \in ToolTimes :
           PlanResearch(outcome, elapsed)
    \/ \E elapsed \in ToolTimes : ExecuteResearch(elapsed)
    \/ \E outcome \in OutcomesFor(llm) : Synthesize(outcome)
    \/ \E outcome \in OutcomesFor(llm) : GenerateResponse(outcome)
    \/ AddAssistantMessage
    \/ \E elapsed \in ResponseTimes : EvaluateResponse(elapsed)
    \/ Return

Spec == AgentInit /\ [][Next]_vars

-----------------------------------------------------------------------------
(* ConversationMemory as used on its own *)

Roles == {"user", "assistant"}
Contents == {"a"}

\* files some earlier session may have left on disk
StoredFiles ==
    { NoFile,
      [exists |-> TRUE, messages |-> <<>>, has_metadata |-> FALSE, metadata |-> {}],
      [exists |-> TRUE,
       messages |-> MapToDict(<<Message("user", "a", 0), Message("assistant", "b", 0),
                                Message("user", "b", 0), Message("system", "a", 0)>>),
       has_metadata |-> TRUE, metadata |-> {<<"session", "s1">>}] }

CMFresh ==
    /\ messages = <<>>
    /\ max_messages \in 0..MaxMaxMessages
    /\ metadata = {}
    /\ file \in StoredFiles
    /\ clock = 0
    /\ raised = "none"
    /\ added = <<>>
    /\ only_adds = TRUE

CMInit == CMFresh /\ LLMIdle /\ RMIdle /\ AgentIdle
    /\ ExtIdle

CMAddMessage(role, content) ==
    /\ Len(added) < MaxAdds
    /\ LET msg == Message(role, content, clock + 1)
       IN  /\ messages' = add_message_result(messages, max_messages, msg)
           /\ added' = Append(added, msg)
    /\ clock' = clock + 1
    /\ raised' = "none"
    /\ UNCHANGED <<max_messages, metadata, file, only_adds>>
    /\ UNCHANGED <<llmVars, rmVars, agentVars>>
    /\ UNCHANGED extVars

CMClear ==
    /\ messages' = <<>>
    /\ metadata' = {}
    /\ raised' = "none"
    /\ only_adds' = FALSE
    /\ UNCHANGED <<max_messages, file, clock, added>>
    /\ UNCHANGED <<llmVars, rmVars, agentVars>>
    /\ UNCHANGED extVars

CMSave ==
    /\ file' = [exists |-> TRUE, messages |-> MapToDict(messages), has_metadata |-> TRUE,
                metadata |-> metadata]
    /\ raised' = "none"
    /\ UNCHANGED <<messages, max_messages, metadata, clock, added, only_adds>>
    /\ UNCHANGED <<llmVars, rmVars, agentVars>>
    /\ UNCHANGED extVars

CMLoad ==
    /\ IF ~file.exists
       THEN /\ raised' = "FileNotFoundError"
            /\ UNCHANGED <<messages, max_messages, metadata, file, clock, added, only_adds>>
       ELSE /\ messages' = MapFromDict(file.messages)
            /\ metadata' = (IF file.has_metadata THEN file.metadata ELSE {})
            /\ raised' = "none"
            /\ only_adds' = FALSE
            /\ UNCHANGED <<max_messages, file, clock, added>>
    /\ UNCHANGED <<llmVars, rmVars, agentVars>>
    /\ UNCHANGED extVars

CMNext ==
    \/ \E role \in Roles, content \in Contents : CMAddMessage(role, content)
    \/ CMClear
    \/ CMSave
    \/ CMLoad

SpecCM == CMInit /\ [][CMNext]_vars

-----------------------------------------------------------------------------
(* The LLM clients as used on their own *)

LLMInit ==
    /\ environ \in Environments
    /\ llm = NoClient
    /\ llm_obs = NoObs
    /\ CMIdle
    /\ RMIdle
    /\ AgentIdle
    /\ ExtIdle

\* client = create_llm_client(mode); a raised ValueError leaves the caller
\* with the client it had
LLMCreate(mode, init_ok) ==
    LET r == create_llm_client(mode, environ, init_ok)
    IN  /\ llm' = (IF r.raised = "none" THEN r.client ELSE llm)
        /\ raised' = r.raised
        /\ llm_obs' =
             IF r.raised = "none"
             THEN [NoObs EXCEPT !.op = "create", !.mode = mode,
                                !.created = r.client.kind,
                                !.init_raised = (r.client.kind = "vertex" /\ ~init_ok),
                                !.mocks_created =
                                    IF r.client.has_mock_client THEN 1 ELSE 0]
             ELSE [llm_obs EXCEPT !.op = "create", !.mode = mode, !.created = "none"]
        /\ UNCHANGED <<environ, messages, max_messages, metadata, file, clock,
                       added, only_adds>>
        /\ UNCHANGED <<rmVars, agentVars>>
    /\ UNCHANGED extVars

\* client.generate(prompt)
LLMGenerate(prompt, outcome) ==
    /\ llm.kind # "none"
    /\ llm.call_count < MaxCalls
    /\ LET r == llm_generate(llm, prompt, outcome)
       IN  /\ llm' = r.client
           /\ raised' = r.raised
           /\ llm_obs' = ObserveGenerate(llm_obs, prompt, r)
    /\ UNCHANGED <<environ, messages, max_messages, metadata, file, clock,
                   added, only_adds>>
    /\ UNCHANGED <<rmVars, agentVars>>
    /\ UNCHANGED extVars

LLMNext ==
    \/ \E mode \in Modes, init_ok \in BOOLEAN : LLMCreate(mode, init_ok)
    \/ \E prompt \in Prompts, outcome \in RemoteOutcomes : LLMGenerate(prompt, outcome)

SpecLLM == LLMInit /\ [][LLMNext]_vars

-----------------------------------------------------------------------------
(* ResearchMemory as used on its own *)

Sources == {None, "", "A", "B"}
Topics == {None, "", "T1", "T2"}

RMInit ==
    /\ research_memory = NewResearchMemory
    /\ rm_adds = 0
    /\ CMIdle
    /\ LLMIdle
    /\ AgentIdle
    /\ ExtIdle

\* research_memory.add_finding(finding, source, topic)
RMAddFinding(finding, source, topic) ==
    /\ clock < MaxFindings
    /\ research_memory' = add_finding(research_memory, finding, source, topic, clock + 1)
    /\ rm_adds' = rm_adds + 1
    /\ clock' = clock + 1
    /\ UNCHANGED <<messages, max_messages, metadata, file, raised, added, only_adds>>
    /\ UNCHANGED <<llmVars, agentVars>>
    /\ UNCHANGED extVars

\* research_memory.clear()
RMClear ==
    /\ research_memory' = NewResearchMemory
    /\ rm_adds' = 0
    /\ UNCHANGED <<cmVars, llmVars, agentVars>>
    /\ UNCHANGED extVars

RMNext ==
    \/ \E source \in Sources, topic \in Topics : RMAddFinding("finding", source, topic)
    \/ RMClear

SpecRM == RMInit /\ [][RMNext]_vars

-----------------------------------------------------------------------------
(* AgentEvaluator on its own *)

\* c * n: a string of n copies of the character c
RECURSIVE Repeat(_, _)
Repeat(c, n) ==
    IF n <= 0 THEN ""
    ELSE IF n = 1 THEN c
    ELSE Repeat(c, n \div 2) \o Repeat(c, n - n \div 2)

\* response times handed to evaluate_response, in microseconds: both sides of
\* every threshold, and one that round(response_time, 3) moves across one
EvalTimes ==
    { 1000000, 1999000, 1999600, 2000000, 4999000, 5000000, 9999000, 10000000 }

\* response lengths on both sides of every threshold
EvalLengths == { 0, 49, 50, 199, 200, 499, 500, 600 }

\* tools_used lists of 0 to 6 names
EvalToolLists ==
    { SubSeq(<<"web_search", "document_reader", "data_analysis",
               "web_search", "document_reader", "data_analysis">>, 1, n) : n \in 0..6 }

\* AgentEvaluator(): an empty log
EvalInit ==
    /\ CMIdle
    /\ LLMIdle
    /\ RMIdle
    /\ AgentIdle
    /\ ExtIdle

\* evaluation = evaluator.evaluate_response(query, response, response_time, tools_used)
EvalEvaluate(q, resp, seconds, tools_used) ==
    /\ clock < MaxEvals
    /\ LET e == evaluate_response(q, resp, seconds, tools_used, clock + 1)
       IN  /\ evaluation' = e
           /\ metrics' = Append(metrics, e)
    /\ query' = q
    /\ response' = resp
    /\ response_time' = seconds
    /\ clock' = clock + 1
    /\ UNCHANGED <<messages, max_messages, metadata, file, raised, added, only_adds>>
    /\ UNCHANGED <<llmVars, rmVars>>
    /\ UNCHANGED <<tools, execution_log, pc, plan, execution_results, synthesis,
                   returned, calls>>
    /\ UNCHANGED extVars

\* evaluator.reset(); the caller's last evaluation is dropped with it
EvalReset ==
    /\ metrics' = <<>>
    /\ evaluation' = NoEvaluation
    /\ query' = ""
    /\ response' = ""
    /\ response_time' = 0
    /\ UNCHANGED <<cmVars, llmVars, rmVars>>
    /\ UNCHANGED <<tools, execution_log, pc, plan, execution_results, synthesis,
                   returned, calls>>
    /\ UNCHANGED extVars

EvalNext ==
    \/ \E n \in EvalLengths, seconds \in EvalTimes, tools_used \in EvalToolLists :
           EvalEvaluate("q", Repeat("x", n), seconds, tools_used)
    \/ EvalReset

SpecEval == EvalInit /\ [][EvalNext]_vars

-----------------------------------------------------------------------------
(* ToolRegistry and the tools on their own *)

\* round(total / n, 3) for a total in microseconds
RoundedAverage3(total, n) == ((2 * total + 1000 * n) \div (2 * 1000 * n)) * 1000

\* Tool.get_stats
get_stats(tool) ==
    LET avg_time == IF tool.execution_count > 0
                    THEN RoundedAverage3(tool.total_execution_time, tool.execution_count)
                    ELSE 0
    IN  [name |-> tool.name,
         executions |-> tool.execution_count,
         total_time |-> Round3(tool.total_execution_time),
         avg_time |-> avg_time]

\* ToolRegistry.get_all_stats
get_all_stats(reg) == [i \in 1..Len(reg) |-> get_stats(reg[i])]

\* fresh instances of the built-in tools
BuiltinTools == { WebSearchTool, DocumentReaderTool, DataAnalysisTool }

\* names asked of ToolRegistry.get
ToolNamesAsked == { t.name : t \in BuiltinTools } \cup { "nonexistent" }

\* one query for each content branch of WebSearchTool.execute
ToolQueries ==
    { "NVDA price", "tesla stock", "machine learning basics", "quantum computing",
      "history of tea" }

\* one URL for each content branch of DocumentReaderTool.execute
ToolUrls ==
    { "https://finance.example.com/nvidia", "https://finance.example.com/TSLA",
      "https://example.org/guide.html", "https://example.org/quantum",
      "https://example.org/tea" }

\* data handed to DataAnalysisTool.execute
ToolData == { <<>>, << [source |-> "document", content |-> "finding"] >> }

\* elapsed wall-clock time of one execute call, in microseconds
ExecuteTimes == { 0, 1500 }

\* what a call on a tool or on the registry is observed to return
ToolObs(op, name) == [NoToolObs EXCEPT !.op = op, !.name = name]

\* the text that identifies the result of tool.execute(input)
ExecuteResultText(name, input) ==
    IF name = "web_search"
    THEN LET r == web_search_execute(input, 5)
         IN  IF r.results = <<>> THEN "" ELSE r.results[1].title
    ELSE IF name = "document_reader"
    THEN document_reader_execute(input, "summary").content.title
    ELSE data_analysis_execute(input, "synthesis").summary

\* the inputs execute takes on the tool registered under name
ExecuteInputs(name) ==
    IF name = "web_search" THEN ToolQueries
    ELSE IF name = "document_reader" THEN ToolUrls
    ELSE ToolData

\* executions counted by the tools of the registry, together
RECURSIVE TotalExecutions(_)
TotalExecutions(reg) ==
    IF reg = <<>> THEN 0
    ELSE Head(reg).execution_count + TotalExecutions(Tail(reg))

\* registry = ToolRegistry()
ToolsInit ==
    /\ CMIdle
    /\ LLMIdle
    /\ RMIdle
    /\ AgentIdle
    /\ ExtIdle

\* registry.register(tool) with a newly constructed tool
TRRegister(tool) ==
    /\ Len(registered) < MaxRegistrations
    /\ tools' = register(tools, tool)
    /\ registered' = Append(registered, tool.name)
    /\ tool_obs' = ToolObs("register", tool.name)
    /\ UNCHANGED <<cmVars, llmVars, rmVars, mock_calls, mainVars, diag>>
    /\ UNCHANGED <<execution_log, metrics, pc, query, plan, execution_results,
                   synthesis, response, evaluation, response_time, returned, calls>>

\* registry.get(name)
TRGet(name) ==
    /\ tool_obs' = [ToolObs("get", name) EXCEPT !.present = HasTool(tools, name)]
    /\ UNCHANGED <<cmVars, llmVars, rmVars, agentVars, registered, mock_calls, mainVars, diag>>

\* registry.list_tools()
TRListTools ==
    /\ tool_obs' = [ToolObs("list_tools", "") EXCEPT !.listed = Len(list_tools(tools))]
    /\ UNCHANGED <<cmVars, llmVars, rmVars, agentVars, registered, mock_calls, mainVars, diag>>

\* registry.get_all_stats()
TRGetAllStats ==
    /\ tool_obs' = [ToolObs("get_all_stats", "") EXCEPT
                       !.listed = Len(get_all_stats(tools))]
    /\ UNCHANGED <<cmVars, llmVars, rmVars, agentVars, registered, mock_calls, mainVars, diag>>

\* registry.get(name).get_stats()
ToolGetStats(name) ==
    /\ HasTool(tools, name)
    /\ LET st == get_stats(tools[ToolIndex(tools, name)])
       IN  tool_obs' = [ToolObs("get_stats", st.name) EXCEPT
                           !.present = TRUE,
                           !.executions = st.executions,
                           !.total_time = st.total_time,
                           !.avg_time = st.avg_time]
    /\ UNCHANGED <<cmVars, llmVars, rmVars, agentVars, registered, mock_calls, mainVars, diag>>

\* registry.get(name).execute(input)
ToolExecute(name, input, elapsed) ==
    /\ HasTool(tools, name)
    /\ TotalExecutions(tools) < MaxExecutions
    /\ tools' = Executed(tools, name, elapsed)
    /\ tool_obs' = [ToolObs("execute", name) EXCEPT
                       !.present = TRUE,
                       !.result = ExecuteResultText(name, input)]
    /\ UNCHANGED <<cmVars, llmVars, rmVars, registered, mock_calls, mainVars, diag>>
    /\ UNCHANGED <<execution_log, metrics, pc, query, plan, execution_results,
                   synthesis, response, evaluation, response_time, returned, calls>>

ToolsNext ==
    \/ \E tool \in BuiltinTools : TRRegister(tool)
    \/ \E name \in ToolNamesAsked : TRGet(name)
    \/ TRListTools
    \/ TRGetAllStats
    \/ \E name \in ToolNamesAsked : ToolGetStats(name)
    \/ \E name \in ToolNamesAsked, elapsed \in ExecuteTimes :
           \E input \in ExecuteInputs(name) : ToolExecute(name, input, elapsed)

SpecTools == ToolsInit /\ [][ToolsNext]_vars

-----------------------------------------------------------------------------
(* MockLLMClient on its own *)

\* prompts for every branch of MockLLMClient.generate, two of them echoed
MockPrompts == Prompts \cup { "Explain quantum computing" }

\* client = MockLLMClient()
MockInit ==
    /\ environ = [PROJECT_ID |-> None, LOCATION |-> None]
    /\ llm = MockLLMClient
    /\ llm_obs = NoObs
    /\ CMIdle
    /\ RMIdle
    /\ AgentIdle
    /\ ExtIdle

\* text = client.generate(prompt)
MockGenerate(prompt) ==
    /\ llm.call_count < MaxCalls
    /\ LET r == mock_generate(llm, prompt)
       IN  /\ llm' = r.client
           /\ llm_obs' = ObserveGenerate(llm_obs, prompt, r)
           /\ mock_calls' = Append(mock_calls,
                                   [prompt |-> prompt, text |-> r.text,
                                    call_count |-> r.client.call_count])
    /\ UNCHANGED <<environ, cmVars, rmVars, agentVars, toolVars, mainVars, diag>>

MockNext == \E prompt \in MockPrompts : MockGenerate(prompt)

SpecMock == MockInit /\ [][MockNext]_vars

-----------------------------------------------------------------------------
(* The runner: main.py *)

RECURSIVE SumSeq(_)
SumSeq(xs) == IF xs = <<>> THEN 0 ELSE Head(xs) + SumSeq(Tail(xs))

\* round(a / n) for a already in the unit of the result
RoundedDiv(a, n) == (2 * a + n) \div (2 * n)

\* AgentEvaluator.get_session_stats (scores in hundredths, times in microseconds)
get_session_stats(ms) ==
    IF ms = <<>> THEN [evaluations |-> 0]
    ELSE LET n == Len(ms)
             scores == [i \in 1..n |-> ms[i].overall_score]
             response_times == [i \in 1..n |-> ms[i].response_time]
             tools_counts == [i \in 1..n |-> ms[i].tools_count]
         IN  [total_evaluations |-> n,
              average_score |-> RoundedDiv(SumSeq(scores), n),
              min_score |-> CHOOSE x \in {scores[i] : i \in 1..n} :
                                \A i \in 1..n : x <= scores[i],
              max_score |-> CHOOSE x \in {scores[i] : i \in 1..n} :
                                \A i \in 1..n : x >= scores[i],
              average_response_time |-> RoundedAverage3(SumSeq(response_times), n),
              average_tools_used |-> RoundedMean(SumSeq(tools_counts), n),
              last_evaluation |-> ms[n].timestamp]

\* how many times name occurs in the tools_used lists of the log
ToolUses(ms, name) ==
    Cardinality({ <<i, k>> \in (1..Len(ms)) \X (1..6) :
                    k <= Len(ms[i].tools_used) /\ ms[i].tools_used[k] = name })

\* AgentEvaluator.get_detailed_report: the session stats, with the metric
\* averages and the tool usage breakdown when there are evaluations
get_detailed_report(ms) ==
    IF ms = <<>> THEN [stats |-> get_session_stats(ms)]
    ELSE LET n == Len(ms)
             used == UNION { { ms[i].tools_used[k] : k \in 1..Len(ms[i].tools_used) } :
                             i \in 1..n }
         IN  [stats |-> get_session_stats(ms),
              metric_averages |->
                  [response_speed |->
                       RoundedMean(SumSeq([i \in 1..n |-> ms[i].metrics.response_speed]), n),
                   response_completeness |->
                       RoundedMean(SumSeq([i \in 1..n |->
                                              ms[i].metrics.response_completeness]), n),
                   tool_usage_efficiency |->
                       RoundedMean(SumSeq([i \in 1..n |->
                                              ms[i].metrics.tool_usage_efficiency]), n)],
              tool_usage_breakdown |-> [name \in used |-> ToolUses(ms, name)]]

\* AgentEvaluator.save_report: the report written
save_report(ms) ==
    [session_info |-> get_session_stats(ms),
     detailed_metrics |-> get_detailed_report(ms),
     all_evaluations |-> ms]

\* characters str.strip() removes
Whitespace == { " ", "\t", "\n" }

\* str.strip()
RECURSIVE strip(_)
strip(str) ==
    IF str = "" THEN ""
    ELSE IF SubSeq(str, 1, 1) \in Whitespace THEN strip(SubSeq(str, 2, Len(str)))
    ELSE IF SubSeq(str, Len(str), Len(str)) \in Whitespace
    THEN strip(SubSeq(str, 1, Len(str) - 1))
    ELSE str

\* command lines: sys.argv[1:]
ArgLists ==
    { <<>>, <<"interactive">>, <<"vertex">>, <<"Interactive">>, <<"status">>,
      <<"batch", "interactive">> }

\* lines typed at the prompt
InputLines == { "QUIT", "exit", " q ", "Status", "", "   ", "quit now", " tea " }

\* the queries of demo_basic and demo_vertex_ai
BasicQueries ==
    << "What are the latest developments in quantum computing?",
       "Explain the principles of machine learning" >>
VertexQuery == "What is the future of artificial intelligence?"

\* the process starts: python main.py args
MainInit ==
    /\ CMIdle
    /\ environ \in { [PROJECT_ID |-> None, LOCATION |-> None],
                     [PROJECT_ID |-> "my-project", LOCATION |-> None] }
    /\ llm = NoClient
    /\ llm_obs = NoObs
    /\ RMIdle
    /\ AgentIdle
    /\ registered = <<>>
    /\ tool_obs = NoToolObs
    /\ mock_calls = <<>>
    /\ argv \in ArgLists
    /\ main_pc = "start"
    /\ agent_built = FALSE
    /\ line = ""
    /\ inputs_read = 0
    /\ research_calls = <<>>
    /\ todo = <<>>
    /\ output = <<"banner">>
    /\ session_files = <<>>
    /\ diag = NoDiag

\* agent = ResearchAssistantAgent(llm_mode=mode)
BuildAgent(mode, init_ok) ==
    /\ llm' = create_llm_client(mode, environ, init_ok).client
    /\ max_messages' = ConvMaxMessages
    /\ tools' = create_default_tools
    /\ agent_built' = TRUE
    /\ UNCHANGED <<messages, metadata, file, clock, raised, added, only_adds>>
    /\ UNCHANGED <<environ, llm_obs, rmVars>>
    /\ UNCHANGED <<execution_log, metrics, pc, query, plan, execution_results,
                   synthesis, response, evaluation, response_time, returned, calls>>
    /\ UNCHANGED <<toolVars, mock_calls, diag, argv, line, inputs_read, session_files>>

\* the locals of an abandoned or finished research call
ResearchLocalsDropped ==
    /\ pc' = "idle"
    /\ query' = ""
    /\ plan' = NoPlan
    /\ execution_results' = NoResults
    /\ synthesis' = ""
    /\ response' = ""
    /\ evaluation' = NoEvaluation
    /\ response_time' = 0

\* which demo the command line selects
Demo == IF argv = <<>> THEN "basic" ELSE argv[1]

\* the else branch of the dispatch: an unknown mode
MainUnknownMode ==
    /\ main_pc = "start"
    /\ Len(argv) > 0
    /\ argv[1] # "interactive" /\ argv[1] # "vertex"
    /\ output' = output \o << "Unknown mode: " \o argv[1],
                              "Usage: python main.py [interactive|vertex]" >>
    /\ main_pc' = "done"
    /\ UNCHANGED <<cmVars, llmVars, rmVars, agentVars, toolVars, mock_calls, diag>>
    /\ UNCHANGED <<argv, agent_built, line, inputs_read, research_calls, todo,
                   session_files>>

\* the mode argument matched in any letter case
DemoInteractiveStartAnyCase(init_ok) ==
    /\ main_pc = "start"
    /\ Len(argv) > 0 /\ lower(argv[1]) = "interactive"
    /\ BuildAgent("auto", init_ok)
    /\ output' = Append(output, "INTERACTIVE MODE")
    /\ main_pc' = "prompt"
    /\ UNCHANGED <<research_calls, todo>>

\* demo_interactive up to the loop
DemoInteractiveStart(init_ok) ==
    /\ main_pc = "start"
    /\ Len(argv) > 0 /\ argv[1] = "interactive"
    /\ BuildAgent("auto", init_ok)
    /\ output' = Append(output, "INTERACTIVE MODE")
    /\ main_pc' = "prompt"
    /\ UNCHANGED <<research_calls, todo>>

\* demo_vertex_ai up to its research call
DemoVertexStart(init_ok) ==
    /\ main_pc = "start"
    /\ Len(argv) > 0 /\ argv[1] = "vertex"
    /\ BuildAgent("vertex", init_ok)
    /\ output' = Append(output, "VERTEX AI MODE")
    /\ research_calls' = <<VertexQuery>>
    /\ todo' = <<>>
    /\ main_pc' = "research"

\* demo_basic up to its first research call
DemoBasicStart ==
    /\ main_pc = "start"
    /\ Len(argv) = 0
    /\ BuildAgent("mock", TRUE)
    /\ output' = Append(output, "BASIC DEMO")
    /\ research_calls' = <<Head(BasicQueries)>>
    /\ todo' = Tail(BasicQueries)
    /\ main_pc' = "research"

\* the status lines the interactive loop prints from agent.get_status()
StatusLines ==
    LET conv == get_summary_stats(messages)
        stats == get_session_stats(metrics)
    IN  << "Status:",
           "Conversations: " \o ToString(conv.message_count),
           "Findings: " \o ToString(Len(research_memory.findings)),
           "Avg Score: " \o (IF metrics = <<>> THEN "N/A"
                             ELSE ToString(stats.average_score)) >>

\* the status test made on the line as typed
InputBranchCaseSensitive(ln) ==
    IF lower(ln) \in {"quit", "exit", "q"} THEN "quit"
    ELSE IF ln = "status" THEN "status"
    ELSE IF ln = "" THEN "blank"
    ELSE "research"

\* the branch the loop body takes on the stripped line
InputBranch(ln) ==
    IF lower(ln) \in {"quit", "exit", "q"} THEN "quit"
    ELSE IF lower(ln) = "status" THEN "status"
    ELSE IF ln = "" THEN "blank"
    ELSE "research"

\* one turn of the loop: input(), strip, and the branch taken
DemoInteractiveInput(raw) ==
    /\ main_pc = "prompt"
    /\ inputs_read < MaxInputs
    /\ LET ln == strip(raw)
           branch == InputBranch(ln)
       IN  /\ line' = ln
           /\ IF branch = "quit"
              THEN /\ output' = Append(output, "Goodbye!")
                   /\ main_pc' = "save"
                   /\ UNCHANGED research_calls
              ELSE IF branch = "status"
              THEN /\ output' = output \o StatusLines
                   /\ main_pc' = "prompt"
                   /\ UNCHANGED research_calls
              ELSE IF branch = "blank"
              THEN /\ main_pc' = "prompt"
                   /\ UNCHANGED <<output, research_calls>>
              ELSE /\ calls < MaxResearch
                   /\ research_calls' = Append(research_calls, ln)
                   /\ main_pc' = "research"
                   /\ UNCHANGED output
    /\ inputs_read' = inputs_read + 1
    /\ UNCHANGED <<cmVars, llmVars, rmVars, agentVars, toolVars, mock_calls, diag>>
    /\ UNCHANGED <<argv, agent_built, todo, session_files>>

\* an interrupt that leaves without saving
DemoInteractiveInterruptNoSave ==
    /\ Demo = "interactive"
    /\ main_pc \in {"prompt", "research"}
    /\ output' = Append(output, "Goodbye!")
    /\ main_pc' = "done"
    /\ ResearchLocalsDropped
    /\ UNCHANGED <<cmVars, llmVars, rmVars, toolVars, mock_calls, diag>>
    /\ UNCHANGED <<tools, execution_log, metrics, returned, calls>>
    /\ UNCHANGED <<argv, agent_built, line, inputs_read, research_calls, todo,
                   session_files>>

\* KeyboardInterrupt inside the try block: at the prompt or during research
DemoInteractiveInterrupt ==
    /\ Demo = "interactive"
    /\ main_pc \in {"prompt", "research"}
    /\ output' = Append(output, "Goodbye!")
    /\ main_pc' = "save"
    /\ ResearchLocalsDropped
    /\ UNCHANGED <<cmVars, llmVars, rmVars, toolVars, mock_calls, diag>>
    /\ UNCHANGED <<tools, execution_log, metrics, returned, calls>>
    /\ UNCHANGED <<argv, agent_built, line, inputs_read, research_calls, todo,
                   session_files>>

\* agent.research(query) is entered: its first statement
MainResearchEnter ==
    /\ main_pc = "research"
    /\ calls < Len(research_calls)
    /\ AddUserMessage(research_calls[Len(research_calls)])

\* agent.research returned to the demo that called it
MainResearchReturned ==
    /\ main_pc = "research"
    /\ pc = "idle"
    /\ calls = Len(research_calls)
    /\ IF Demo = "interactive"
       THEN /\ output' = Append(output, "Response:\n" \o returned.response)
            /\ main_pc' = "prompt"
            /\ UNCHANGED <<research_calls, todo>>
       ELSE IF Demo = "vertex"
       THEN /\ output' = Append(output, "RESPONSE:\n" \o returned.response)
            /\ main_pc' = "done"
            /\ UNCHANGED <<research_calls, todo>>
       ELSE IF todo # <<>>
       THEN /\ output' = Append(output, "RESPONSE:\n" \o returned.response)
            /\ research_calls' = Append(research_calls, Head(todo))
            /\ todo' = Tail(todo)
            /\ main_pc' = "research"
       ELSE /\ output' = (Append(output, "RESPONSE:\n" \o returned.response)
                              \o <<"AGENT STATUS">>) \o StatusLines
            /\ main_pc' = "save"
            /\ UNCHANGED <<research_calls, todo>>
    /\ UNCHANGED <<cmVars, llmVars, rmVars, agentVars, toolVars, mock_calls, diag>>
    /\ UNCHANGED <<argv, agent_built, line, inputs_read, session_files>>

\* agent.save_session(): the conversation file and the evaluation report
MainSaveSession ==
    /\ main_pc = "save"
    /\ file' = [exists |-> TRUE, messages |-> MapToDict(messages),
                has_metadata |-> TRUE, metadata |-> metadata]
    /\ session_files' = Append(session_files,
                               [conversation |-> MapToDict(messages),
                                evaluation |-> save_report(metrics)])
    /\ main_pc' = "done"
    /\ UNCHANGED <<messages, max_messages, metadata, clock, raised, added, only_adds>>
    /\ UNCHANGED <<llmVars, rmVars, agentVars, toolVars, mock_calls, diag>>
    /\ UNCHANGED <<argv, agent_built, line, inputs_read, research_calls, todo, output>>

MainNext ==
    \/ MainUnknownMode
    \/ \E init_ok \in BOOLEAN : DemoInteractiveStart(init_ok)
    \/ \E init_ok \in BOOLEAN : DemoVertexStart(init_ok)
    \/ DemoBasicStart
    \/ \E raw \in InputLines : DemoInteractiveInput(raw)
    \/ DemoInteractiveInterrupt
    \/ MainResearchEnter
    \/ \E outcome \in PlanOutcomesFor(llm), elapsed \in ToolTimes :
           PlanResearch(outcome, elapsed)
    \/ \E elapsed \in ToolTimes : ExecuteResearch(elapsed)
    \/ \E outcome \in OutcomesFor(llm) : Synthesize(outcome)
    \/ \E outcome \in OutcomesFor(llm) : GenerateResponse(outcome)
    \/ AddAssistantMessage
    \/ \E elapsed \in ResponseTimes : EvaluateResponse(elapsed)
    \/ Return
    \/ MainResearchReturned
    \/ MainSaveSession

SpecMain == MainInit /\ [][MainNext]_vars

-----------------------------------------------------------------------------
(* The diagnostic scripts that authenticate with service-account.json *)

DiagScripts == { "test_rest_with_sa", "test_service_account", "test_vertex_ai" }

\* the script tests os.path.exists("service-account.json") before anything else
ChecksFileFirst(script) == script \in { "test_rest_with_sa", "test_service_account" }

\* the library calls inside each script's try block, in program order
DiagPlan(script) ==
    IF script = "test_rest_with_sa"
    THEN << "from_service_account_file", "credentials.refresh", "requests.post" >>
    ELSE IF script = "test_service_account"
    THEN << "from_service_account_file", "genai.configure", "genai.list_models",
            "GenerativeModel", "generate_content" >>
    ELSE << "vertexai.init", "GenerativeModel", "generate_content" >>

\* what kind of step a library call is
StepKind(script, step) ==
    IF step = "from_service_account_file" THEN "credential-loading"
    ELSE IF step \in { "genai.configure", "vertexai.init", "GenerativeModel" }
    THEN "session-initialisation"
    ELSE "network"

\* how a library call can end; loading credentials from a missing file and
\* a request that needs them can only raise
StepOutcomes(script, step, sa_file) ==
    IF ~sa_file /\ StepKind(script, step) # "session-initialisation"
    THEN { "raise" }
    ELSE IF step = "requests.post"
    THEN { "ok", "raise", "status 403", "status 500", "no candidates" }
    ELSE { "ok", "raise" }

\* python test_x.py, with or without service-account.json in the directory
DiagInit ==
    /\ CMIdle
    /\ environ \in Environments
    /\ llm = NoClient
    /\ llm_obs = NoObs
    /\ RMIdle
    /\ AgentIdle
    /\ registered = <<>>
    /\ tool_obs = NoToolObs
    /\ mock_calls = <<>>
    /\ argv = <<>>
    /\ main_pc = "none"
    /\ agent_built = FALSE
    /\ line = ""
    /\ inputs_read = 0
    /\ research_calls = <<>>
    /\ todo = <<>>
    /\ output = <<>>
    /\ session_files = <<>>
    /\ diag \in { [NoDiag EXCEPT !.script = script, !.sa_file = sa_file, !.pc = "start"] :
                    script \in DiagScripts, sa_file \in BOOLEAN }

\* the statements before the try block
DiagStart ==
    /\ diag.pc = "start"
    /\ diag' =
         IF ChecksFileFirst(diag.script)
         THEN IF ~diag.sa_file
              THEN [diag EXCEPT !.output = Append(@, "Service account file not found"),
                                !.result = "False", !.pc = "verdict"]
              ELSE [diag EXCEPT !.output = Append(@, "Service account file found"),
                                !.pc = "try"]
         ELSE [diag EXCEPT
                  !.output = @ \o << "Project ID: " \o environ.PROJECT_ID,
                                     "Location: " \o environ.LOCATION >>,
                  !.credentials_env = "service-account.json",
                  !.pc = "try"]
    /\ UNCHANGED <<cmVars, llmVars, rmVars, agentVars, toolVars, mock_calls, mainVars>>

\* the next library call of the try block, and the except clause when it raises
DiagStep(outcome) ==
    /\ diag.pc = "try"
    /\ LET plan_ == DiagPlan(diag.script)
           step == plan_[Len(diag.steps) + 1]
       IN  /\ outcome \in StepOutcomes(diag.script, step, diag.sa_file)
           /\ diag' =
                IF outcome = "ok"
                THEN IF Len(diag.steps) + 1 = Len(plan_)
                     THEN [diag EXCEPT !.steps = Append(@, step),
                                       !.output = Append(@, "Response"),
                                       !.result = "True", !.pc = "verdict"]
                     ELSE [diag EXCEPT !.steps = Append(@, step)]
                ELSE [diag EXCEPT !.steps = Append(@, step),
                                  !.output = Append(@, "Error: " \o outcome),
                                  !.result = "False", !.pc = "verdict"]
    /\ UNCHANGED <<cmVars, llmVars, rmVars, agentVars, toolVars, mock_calls, mainVars>>

\* the __main__ block prints the verdict
DiagVerdict ==
    /\ diag.pc = "verdict"
    /\ diag' = [diag EXCEPT
                   !.output = Append(@, IF diag.result = "True" THEN "successful"
                                        ELSE "failed"),
                   !.pc = "done"]
    /\ UNCHANGED <<cmVars, llmVars, rmVars, agentVars, toolVars, mock_calls, mainVars>>

DiagNext ==
    \/ DiagStart
    \/ \E outcome \in { "ok", "raise", "status 403", "status 500", "no candidates" } :
           DiagStep(outcome)
    \/ DiagVerdict

SpecDiag == DiagInit /\ [][DiagNext]_vars

-----------------------------------------------------------------------------
(* The API-key endpoint probe: diagnose_api.py *)

\* the endpoints list, in program order: name, HTTP verb, whether "models" in url
ProbeEndpoints ==
    << [name |-> "Gemini Pro (v1beta)", verb |-> "post",
        url |-> "v1beta/models/gemini-pro:generateContent"],
       [name |-> "Gemini Pro (v1)", verb |-> "post",
        url |-> "v1/models/gemini-pro:generateContent"],
       [name |-> "List Models (v1beta)", verb |-> "get",
        url |-> "v1beta/models"] >>

\* what a request can come back with: a status and a body, or an exception
ProbeOutcomes ==
    { [status |-> "200", body |-> "json"], [status |-> "200", body |-> "not json"],
      [status |-> "400", body |-> "text"], [status |-> "403", body |-> "text"],
      [status |-> "500", body |-> "text"], [status |-> "raise", body |-> ""] }

ApiKeys == { None, "AIzaSyA-0123456789abcdefghij" }

\* the RACCOMANDAZIONI block printed after the loop
Checklist ==
    << "RACCOMANDAZIONI:",
       "https://console.cloud.google.com/apis/library/generativelanguage.googleapis.com",
       "https://console.cloud.google.com/apis/credentials",
       "https://console.cloud.google.com/vertex-ai" >>

\* python diagnose_api.py
ProbeInit ==
    /\ CMIdle
    /\ environ \in Environments
    /\ llm = NoClient
    /\ llm_obs = NoObs
    /\ RMIdle
    /\ AgentIdle
    /\ registered = <<>>
    /\ tool_obs = NoToolObs
    /\ mock_calls = <<>>
    /\ argv = <<>>
    /\ main_pc = "none"
    /\ agent_built = FALSE
    /\ line = ""
    /\ inputs_read = 0
    /\ research_calls = <<>>
    /\ todo = <<>>
    /\ output = <<>>
    /\ session_files = <<>>
    /\ diag \in { [script |-> "diagnose_api", api_key |-> k, pc |-> "start",
                   requests |-> <<>>, result |-> "none", output |-> <<>>] :
                    k \in ApiKeys }

\* the lines before the loop
ProbeStart ==
    /\ diag.pc = "start"
    /\ diag' = [diag EXCEPT
                   !.output = IF Truthy(diag.api_key)
                              THEN << "API Key presente: yes",
                                      "Key: " \o SliceFirst(diag.api_key, 20) \o "..."
                                              \o SliceLast(diag.api_key, 4) >>
                              ELSE << "API Key presente: no" >>,
                   !.pc = "loop"]
    /\ UNCHANGED <<cmVars, llmVars, rmVars, agentVars, toolVars, mock_calls, mainVars>>

\* the lines one response makes the loop body print, and whether it returns True
ProbeResponse(endpoint, outcome) ==
    IF outcome.status = "raise"
    THEN [lines |-> << "Exception" >>, returns |-> FALSE]
    ELSE IF outcome.status = "200"
    THEN IF outcome.body = "json"
         THEN [lines |-> << "Status: 200", "FUNZIONA!", "Modelli disponibili" >>,
               returns |-> TRUE]
         ELSE [lines |-> << "Status: 200", "FUNZIONA!", "Exception" >>,
               returns |-> FALSE]
    ELSE IF outcome.status = "403"
    THEN [lines |-> << "Status: 403", "403 Forbidden" >>, returns |-> FALSE]
    ELSE IF outcome.status = "400"
    THEN [lines |-> << "Status: 400", "400 Bad Request", "Response: " \o outcome.body >>,
          returns |-> FALSE]
    ELSE [lines |-> << "Status: " \o outcome.status, "Error: " \o outcome.body >>,
          returns |-> FALSE]

\* one iteration of the loop over the endpoints
ProbeRequest(outcome) ==
    /\ diag.pc = "loop"
    /\ Len(diag.requests) < Len(ProbeEndpoints)
    /\ LET endpoint == ProbeEndpoints[Len(diag.requests) + 1]
           r == ProbeResponse(endpoint, outcome)
       IN  diag' = [diag EXCEPT
                       !.requests = Append(@, [name |-> endpoint.name, verb |-> endpoint.verb,
                                               status |-> outcome.status]),
                       !.output = @ \o << "Test " \o endpoint.name >> \o r.lines,
                       !.result = IF r.returns THEN "True" ELSE @,
                       !.pc = IF r.returns THEN "done" ELSE @]
    /\ UNCHANGED <<cmVars, llmVars, rmVars, agentVars, toolVars, mock_calls, mainVars>>

\* the loop is exhausted: the checklist, then return False
ProbeChecklist ==
    /\ diag.pc = "loop"
    /\ Len(diag.requests) = Len(ProbeEndpoints)
    /\ diag' = [diag EXCEPT !.output = @ \o Checklist, !.result = "False", !.pc = "done"]
    /\ UNCHANGED <<cmVars, llmVars, rmVars, agentVars, toolVars, mock_calls, mainVars>>

ProbeNext ==
    \/ ProbeStart
    \/ \E outcome \in ProbeOutcomes : ProbeRequest(outcome)
    \/ ProbeChecklist

SpecProbe == ProbeInit /\ [][ProbeNext]_vars

-----------------------------------------------------------------------------
(* WebSearchTool.execute with its arguments chosen by the caller *)

\* queries naming a company and a price or market word, and queries naming neither
CompanyWords == { "NVIDIA", "nvda", "Tesla", "TSLA" }
MarketWords == { "azioni", "stock", "prezzo", "price", "andamento" }
SearchQueries ==
    { c \o " " \o w : c \in CompanyWords, w \in MarketWords }
    \cup { "Tesla", "quantum computing", "HTML basics", "" }

\* the max_results argument: any integer
MaxResultsAsked == { -2, -1, 0, 1, 2, 3, 5 }

SearchInit ==
    /\ CMIdle
    /\ LLMIdle
    /\ RMIdle
    /\ AgentIdle
    /\ ExtIdle

\* WebSearchTool()
SearchConstruct ==
    /\ tools = NewToolRegistry
    /\ tools' = register(tools, WebSearchTool)
    /\ UNCHANGED <<cmVars, llmVars, rmVars, extVars>>
    /\ UNCHANGED <<execution_log, metrics, pc, query, plan, execution_results,
                   synthesis, response, evaluation, response_time, returned, calls>>

\* tool.execute(query, max_results)
SearchExecute(q, max_results, elapsed) ==
    /\ HasTool(tools, "web_search")
    /\ TotalExecutions(tools) < MaxSearches
    /\ tools' = Executed(tools, "web_search", elapsed)
    /\ tool_obs' = [op |-> "web_search", query |-> q, max_results |-> max_results,
                    result |-> web_search_execute(q, max_results)]
    /\ UNCHANGED <<cmVars, llmVars, rmVars, registered, mock_calls, mainVars, diag>>
    /\ UNCHANGED <<execution_log, metrics, pc, query, plan, execution_results,
                   synthesis, response, evaluation, response_time, returned, calls>>

SearchNext ==
    \/ SearchConstruct
    \/ \E q \in SearchQueries, max_results \in MaxResultsAsked, elapsed \in ExecuteTimes :
           SearchExecute(q, max_results, elapsed)

SpecSearch == SearchInit /\ [][SearchNext]_vars

-----------------------------------------------------------------------------
(* TaskOrchestrator.synthesize_findings called with findings of the caller *)

\* finding dicts: with a source, with a source of None, without the key
FindingDicts ==
    { [source |-> "Doc A", content |-> "alpha"],
      [source |-> None, content |-> "beta"],
      [content |-> "gamma"],
      [source |-> "Doc B"],
      [source |-> "", content |-> "delta"] }

FindingLists ==
    {<<>>} \cup { <<f>> : f \in FindingDicts }
           \cup { <<f, g>> : f \in FindingDicts, g \in FindingDicts }

\* an orchestrator on a mock client; the findings its caller will pass
SynthInit ==
    /\ environ = [PROJECT_ID |-> None, LOCATION |-> None]
    /\ llm = MockLLMClient
    /\ llm_obs = NoObs
    /\ CMIdle
    /\ RMIdle
    /\ tools = NewToolRegistry
    /\ execution_log = <<>>
    /\ metrics = <<>>
    /\ pc = "idle"
    /\ query = ""
    /\ plan = NoPlan
    /\ execution_results \in { [NoResults EXCEPT !.findings = fs] : fs \in FindingLists }
    /\ synthesis = ""
    /\ response = ""
    /\ evaluation = NoEvaluation
    /\ response_time = 0
    /\ returned = NoReturn
    /\ calls = 0
    /\ ExtIdle

\* synthesis = orchestrator.synthesize_findings(findings)
SynthCall ==
    /\ llm.call_count < MaxCalls
    /\ LET r == synthesize_findings(llm, execution_results.findings, Unused)
       IN  /\ llm' = r.client
           /\ llm_obs' = ObserveGenerate(llm_obs,
                                         SynthesisPrompt(execution_results.findings), r)
           /\ synthesis' = r.text
    /\ UNCHANGED <<environ, cmVars, rmVars, extVars>>
    /\ UNCHANGED <<tools, execution_log, metrics, pc, query, plan, execution_results,
                   response, evaluation, response_time, returned, calls>>

SynthNext == SynthCall

SpecSynth == SynthInit /\ [][SynthNext]_vars

-----------------------------------------------------------------------------
(* AgentEvaluator: the log and the operations that read it.  returned holds *)
(* what the last call returned, calls the evaluate_response calls since     *)
(* construction or the last reset.                                          *)

LogResponses == { "", Repeat("x", 600) }
LogTimes == { 1000000, 10000000 }
LogToolLists == { <<>>, << "web_search", "data_analysis" >> }

LogInit ==
    /\ CMIdle
    /\ LLMIdle
    /\ RMIdle
    /\ AgentIdle
    /\ ExtIdle

\* a call whose effect is confined to the evaluator and its return value
LogFrame ==
    /\ UNCHANGED <<messages, max_messages, metadata, file, raised, added, only_adds>>
    /\ UNCHANGED <<llmVars, rmVars, extVars>>
    /\ UNCHANGED <<tools, execution_log, pc, query, plan, execution_results, synthesis,
                   response, evaluation, response_time>>

\* the log is replaced by the new record
LogEvaluateOverwrites(resp, seconds, tools_used) ==
    /\ Len(metrics) < MaxLogged
    /\ clock <= MaxLogged
    /\ LET e == evaluate_response("q", resp, seconds, tools_used, clock + 1)
       IN  /\ metrics' = << e >>
           /\ returned' = [op |-> "evaluate_response", value |-> e]
    /\ clock' = clock + 1
    /\ calls' = calls + 1
    /\ LogFrame

\* evaluator.evaluate_response(query, response, response_time, tools_used)
LogEvaluate(resp, seconds, tools_used) ==
    /\ Len(metrics) < MaxLogged
    /\ clock <= MaxLogged
    /\ LET e == evaluate_response("q", resp, seconds, tools_used, clock + 1)
       IN  /\ metrics' = Append(metrics, e)
           /\ returned' = [op |-> "evaluate_response", value |-> e]
    /\ clock' = clock + 1
    /\ calls' = calls + 1
    /\ LogFrame

\* evaluator.get_session_stats()
LogGetSessionStats ==
    /\ returned' = [op |-> "get_session_stats", value |-> get_session_stats(metrics)]
    /\ UNCHANGED <<metrics, clock, calls>>
    /\ LogFrame

\* evaluator.get_detailed_report()
LogGetDetailedReport ==
    /\ returned' = [op |-> "get_detailed_report", value |-> get_detailed_report(metrics)]
    /\ UNCHANGED <<metrics, clock, calls>>
    /\ LogFrame

\* evaluator.save_report(filepath): the value is what the file holds
LogSaveReport ==
    /\ returned' = [op |-> "save_report", value |-> save_report(metrics)]
    /\ UNCHANGED <<metrics, clock, calls>>
    /\ LogFrame

\* evaluator.reset()
LogReset ==
    /\ metrics' = <<>>
    /\ returned' = [op |-> "reset", value |-> None]
    /\ calls' = 0
    /\ UNCHANGED clock
    /\ LogFrame

LogNext ==
    \/ \E resp \in LogResponses, seconds \in LogTimes, tools_used \in LogToolLists :
           LogEvaluate(resp, seconds, tools_used)
    \/ LogGetSessionStats
    \/ LogGetDetailedReport
    \/ LogSaveReport
    \/ LogReset

SpecLog == LogInit /\ [][LogNext]_vars

-----------------------------------------------------------------------------
(* A long session: a mock-mode agent asked the same question again and again *)

LongInit ==
    /\ AgentInit
    /\ llm = MockLLMClient

\* research(query) by a caller that repeats its first question
LongAddUserMessage(q) ==
    /\ calls < MaxTurns
    /\ calls > 0 => q = returned.query
    /\ EnterResearch(q)

LongNext ==
    \/ \E q \in Queries : LongAddUserMessage(q)
    \/ \E outcome \in PlanOutcomesFor(llm), elapsed \in ToolTimes :
           PlanResearch(outcome, elapsed)
    \/ \E elapsed \in ToolTimes : ExecuteResearch(elapsed)
    \/ \E outcome \in OutcomesFor(llm) : Synthesize(outcome)
    \/ \E outcome \in OutcomesFor(llm) : GenerateResponse(outcome)
    \/ AddAssistantMessage
    \/ \E elapsed \in ResponseTimes : EvaluateResponse(elapsed)
    \/ Return

SpecLong == LongInit /\ [][LongNext]_vars

-----------------------------------------------------------------------------
\* C1: after any sequence of add_message, clear and load, the number of stored
\* messages never exceeds max_messages (for every max_messages >= 0).
C1_LengthNeverExceedsMax == Len(messages) <= max_messages

\* C2: with max_messages = M >= 1 and only add_message calls so far (n of them),
\* the stored messages are exactly the last min(n, M) messages added, in their
\* original order, and message_count is min(n, M).
C2_LastMinKept ==
    (only_adds /\ max_messages >= 1) =>
        LET n == Len(added)
            k == Min(n, max_messages)
        IN  /\ messages = SubSeq(added, n - k + 1, n)
            /\ get_summary_stats(messages).message_count = k

C2_Witness ==
    /\ only_adds
    /\ max_messages = 3
    /\ Len(added) = 5
    /\ messages = SubSeq(added, 3, 5)
    /\ get_summary_stats(messages).message_count = 3

\* C3: a hosted-model client's availability is fixed at construction (it is
\* unavailable exactly when initialisation raised) and no generate call changes
\* it; a generate call whose remote invocation raises returns the mock's text
\* for that call, and every generate call on an available client, also one
\* after a failed call, invokes the remote model.
C3_AvailabilityState ==
    llm.kind = "vertex" =>
        /\ llm.available = ~llm_obs.init_raised
        /\ llm.available => llm_obs.remote_calls = llm.call_count
        /\ (llm_obs.op = "generate" /\ llm_obs.remote_raised) =>
               llm_obs.text = MockText(llm_obs.prompt)

C3_AvailabilityFixed ==
    /\ []C3_AvailabilityState
    /\ [][(llm_obs'.op = "generate" /\ llm'.call_count = llm.call_count + 1) =>
              llm'.available = llm.available]_vars

C3_Witness ==
    /\ llm.kind = "vertex" /\ llm.available
    /\ llm_obs.fallbacks >= 1
    /\ llm_obs.op = "generate" /\ llm_obs.remote_invoked /\ ~llm_obs.remote_raised
    /\ llm_obs.text = "Remote model answer."

\* C4: VertexAIClient.generate never propagates an error and always returns
\* text: unavailable, it returns the fallback mock's output without invoking
\* the remote model; available with the remote call (or reading its text)
\* raising, it returns the fallback mock's output, and the fallback mock is
\* created only when the client has none yet.
C4_GenerateNeverRaises ==
    (llm.kind = "vertex" /\ llm_obs.op = "generate") =>
        /\ raised = "none"
        /\ llm_obs.text \in STRING
        /\ ~llm.available =>
               /\ llm_obs.text = MockText(llm_obs.prompt)
               /\ ~llm_obs.remote_invoked
        /\ (llm.available /\ llm_obs.remote_raised) =>
               /\ llm_obs.text = MockText(llm_obs.prompt)
               /\ llm.has_mock_client
        /\ llm_obs.mocks_created <= 1
        /\ llm.has_mock_client => llm.mock_call_count = llm_obs.fallbacks

C4_Witness ==
    /\ llm.kind = "vertex" /\ llm.available
    /\ llm_obs.op = "generate" /\ llm_obs.remote_raised
    /\ llm_obs.fallbacks = 2 /\ llm.mock_call_count = 2
    /\ llm_obs.mocks_created = 1
    /\ llm_obs.text = MockSummaryText

\* C5: create_llm_client("mock") returns a mock client; "vertex" and "auto"
\* return a mock client when the environment configures no project identifier
\* and a hosted client otherwise; any other mode raises an invalid-input error
\* and returns no client.
C5_FactoryModes ==
    llm_obs.op = "create" =>
        IF llm_obs.mode = "mock"
        THEN raised = "none" /\ llm_obs.created = "mock" /\ llm.kind = "mock"
        ELSE IF llm_obs.mode \in {"vertex", "auto"}
        THEN /\ raised = "none"
             /\ llm_obs.created =
                    (IF environ.PROJECT_ID \in {None, ""} THEN "mock" ELSE "vertex")
             /\ llm.kind = llm_obs.created
             /\ llm.kind = "vertex" =>
                    /\ llm.project_id = environ.PROJECT_ID
                    /\ llm.call_count = 0
        ELSE raised = "ValueError" /\ llm_obs.created = "none"

C5_Witness ==
    /\ llm_obs.op = "create" /\ llm_obs.mode = "Mock"
    /\ raised = "ValueError" /\ llm_obs.created = "none"
    /\ environ.PROJECT_ID = "my-project"
    /\ llm.kind = "vertex"

\* the names registered, in list_tools() order
ToolNames(reg) == [i \in 1..Len(reg) |-> reg[i].name]

DefaultToolNames == <<"web_search", "document_reader", "data_analysis">>

\* the results of every execute_research call logged so far
ExecuteEntries == { i \in 1..Len(execution_log) :
                      execution_log[i].action = "execute_research" }

\* C6: execute_research returns success = TRUE exactly when its tools_used is
\* non-empty; when web_search is not registered no tool is executed and it
\* returns tools_used = [], findings = [] and success = FALSE.
C6_SuccessIffToolsUsed ==
    \A i \in ExecuteEntries :
        LET r == execution_log[i].result
        IN  /\ r.success = (r.tools_used # <<>>)
            /\ ~HasTool(tools, "web_search") =>
                   /\ r.tools_used = <<>>
                   /\ r.findings = <<>>
                   /\ r.steps = <<>>
                   /\ r.success = FALSE
                   /\ \A k \in 1..Len(tools) : tools[k].execution_count = 0

C6_Witness ==
    /\ ToolNames(tools) = <<"data_analysis">>
    /\ pc = "synthesize"
    /\ execution_results.tools_used = <<>>
    /\ execution_results.success = FALSE
    /\ execution_log[Len(execution_log)].result = execution_results

\* C7: for an agent with the mock client and the default tool registry, every
\* research(query) yields an evaluation whose tools_used is web_search,
\* document_reader, data_analysis in that order, and a non-empty synthesis
\* that is not the "No findings to synthesize." fallback.
C7_MockPipeline ==
    (llm.kind = "mock" /\ ToolNames(tools) = DefaultToolNames) =>
        /\ \A i \in 1..Len(metrics) : metrics[i].tools_used = DefaultToolNames
        /\ calls > 0 =>
               /\ returned.evaluation.tools_used = DefaultToolNames
               /\ returned.execution.tools_used = DefaultToolNames
               /\ returned.synthesis # ""
               /\ returned.synthesis # NoFindingsText

C7_Witness ==
    /\ llm.kind = "mock" /\ ToolNames(tools) = DefaultToolNames
    /\ pc = "idle" /\ calls > 0
    /\ returned.query = "Explain the principles of machine learning"
    /\ returned.evaluation.tools_used = DefaultToolNames
    /\ returned.synthesis = MockSearchText
    /\ returned.execution.steps[1].result.results = WebSearchML

\* the last message of the conversation is (role, content)
LastMessageIs(role, content) ==
    /\ messages # <<>>
    /\ messages[Len(messages)].role = role
    /\ messages[Len(messages)].content = content

\* the last two messages are (user, q) then (assistant, resp)
LastTwoAre(q, resp) ==
    /\ Len(messages) >= 2
    /\ messages[Len(messages) - 1].role = "user"
    /\ messages[Len(messages) - 1].content = q
    /\ LastMessageIs("assistant", resp)

LastLogged(action) ==
    /\ execution_log # <<>>
    /\ execution_log[Len(execution_log)].action = action
    /\ execution_log[Len(execution_log)].result.query = query

\* C8: each research(query) call appends the user message, plans, executes,
\* synthesizes, generates the response, appends the assistant message and
\* evaluates, in this order; on return the last two messages are (user, query)
\* and (assistant, response) and the evaluator log has grown by exactly one
\* record, with this call's query and tools_used.
C8_ResearchOrder ==
    /\ pc = "plan_research" =>
           /\ LastMessageIs("user", query)
           /\ Len(execution_log) = 2 * calls
           /\ Len(metrics) = calls
    /\ pc = "execute_research" =>
           /\ LastLogged("plan_research")
           /\ Len(execution_log) = 2 * calls + 1
           /\ plan = execution_log[Len(execution_log)].result
    /\ pc = "synthesize" =>
           /\ LastLogged("execute_research")
           /\ Len(execution_log) = 2 * calls + 2
           /\ execution_results = execution_log[Len(execution_log)].result
           /\ synthesis = ""
    /\ pc = "generate_response" =>
           /\ synthesis # ""
           /\ response = ""
           /\ LastMessageIs("user", query)
    /\ pc = "add_assistant_message" =>
           /\ response # ""
           /\ LastMessageIs("user", query)
           /\ Len(metrics) = calls
    /\ pc = "evaluate_response" =>
           /\ LastTwoAre(query, response)
           /\ Len(metrics) = calls
    /\ pc = "return" =>
           /\ LastTwoAre(query, response)
           /\ Len(metrics) = calls + 1
           /\ metrics[Len(metrics)] = evaluation
           /\ evaluation.query = query
           /\ evaluation.tools_used = execution_results.tools_used
    /\ (pc = "idle" /\ calls > 0) =>
           /\ LastTwoAre(returned.query, returned.response)
           /\ Len(metrics) = calls
           /\ metrics[Len(metrics)] = returned.evaluation
           /\ returned.evaluation.query = returned.query
           /\ returned.evaluation.tools_used = returned.execution.tools_used
           /\ Len(execution_log) = 2 * calls

C8_Witness ==
    /\ pc = "idle" /\ calls = 2
    /\ Len(messages) = 4 /\ Len(metrics) = 2
    /\ LastTwoAre("What is the NVDA stock price?", returned.response)
    /\ messages[1].content = ""
    /\ metrics[2].query = "What is the NVDA stock price?"
    /\ metrics[2].tools_used = <<"web_search", "data_analysis">>

\* what add_finding stores for a finding of execute_research
StoredAs(f, topic, stored) ==
    /\ stored.content = f.content
    /\ stored.source = f.source
    /\ stored.topic = topic

\* C9: in research(query), when execute_research returned findings, each is
\* appended to research memory, in order, with topic = query and its own
\* source, and the synthesis is what synthesize_findings returns; when it
\* returned none, research memory is unchanged, the LLM is not called and the
\* synthesis is exactly "No findings to synthesize.".
C9_SynthesisStep ==
    [][pc = "synthesize" =>
          LET f == execution_results.findings
              old == research_memory.findings
              new == research_memory'.findings
          IN  IF f # <<>>
              THEN /\ Len(new) = Len(old) + Len(f)
                   /\ SubSeq(new, 1, Len(old)) = old
                   /\ \A i \in 1..Len(f) : StoredAs(f[i], query, new[Len(old) + i])
                   /\ \E o \in OutcomesFor(llm) :
                          synthesis' = synthesize_findings(llm, f, o).text
                   /\ llm'.call_count = llm.call_count + 1
              ELSE /\ research_memory' = research_memory
                   /\ llm' = llm
                   /\ synthesis' = NoFindingsText]_vars

C9_Witness ==
    /\ pc = "generate_response"
    /\ calls = 1
    /\ query = "What is the NVDA stock price?"
    /\ Len(execution_results.findings) = 9
    /\ Len(research_memory.findings) = 9 + Len(returned.execution.findings)
    /\ research_memory.findings[Len(research_memory.findings)].source = "document"
    /\ research_memory.findings[Len(research_memory.findings)].topic = query
    /\ synthesis = MockSearchText

C9_WitnessNoFindings ==
    /\ pc = "generate_response"
    /\ execution_results.findings = <<>>
    /\ synthesis = NoFindingsText
    /\ research_memory = NewResearchMemory
    /\ llm.call_count = 3 * calls + 1

\* no value occurs twice in lst
NoDuplicates(lst) ==
    \A i, j \in 1..Len(lst) : i # j => lst[i] # lst[j]

\* index of the first finding whose field (source or topic) is v; 0 if none
FirstFinding(field, v) ==
    LET fs == research_memory.findings
    IN  IF \E i \in 1..Len(fs) : fs[i][field] = v
        THEN CHOOSE i \in 1..Len(fs) :
                 /\ fs[i][field] = v
                 /\ \A j \in 1..(i - 1) : fs[j][field] # v
        ELSE 0

InFirstAppearanceOrder(lst, field) ==
    /\ \A i \in 1..Len(lst) : FirstFinding(field, lst[i]) # 0
    /\ \A k \in 1..Len(research_memory.findings) :
           LET v == research_memory.findings[k][field]
           IN  (v # None /\ v # "") => InSeq(v, lst)
    /\ \A i, j \in 1..Len(lst) :
           i < j => FirstFinding(field, lst[i]) < FirstFinding(field, lst[j])

\* C10: after any add_finding calls since construction or the last clear,
\* sources and topics hold no value twice and list their values in order of
\* first appearance, and findings has one entry per add_finding call.
C10_DedupOrdered ==
    /\ NoDuplicates(research_memory.sources)
    /\ NoDuplicates(research_memory.topics)
    /\ InFirstAppearanceOrder(research_memory.sources, "source")
    /\ InFirstAppearanceOrder(research_memory.topics, "topic")
    /\ Len(research_memory.findings) = rm_adds

C10_Witness ==
    /\ Len(research_memory.findings) = 3
    /\ research_memory.findings[1].source = "A"
    /\ research_memory.findings[2].source = "B"
    /\ research_memory.findings[3].source = "A"
    /\ research_memory.sources = <<"A", "B">>
    /\ research_memory.topics = <<"T2", "T1">>

\* C11: every source and every topic carried by a stored finding (any string
\* given to add_finding, the empty string included) is a member of sources,
\* respectively topics.
C11_EveryValueListed ==
    \A k \in 1..Len(research_memory.findings) :
        LET f == research_memory.findings[k]
        IN  /\ f.source # None => InSeq(f.source, research_memory.sources)
            /\ f.topic # None => InSeq(f.topic, research_memory.topics)

\* the reference table for the speed score, response time in microseconds
RefSpeed(us) ==
    CASE us < 2000000 -> 100
      [] us >= 2000000 /\ us < 5000000 -> 80
      [] us >= 5000000 /\ us < 10000000 -> 60
      [] us >= 10000000 -> 40

\* the reference table for the completeness score
RefCompleteness(length) ==
    CASE length < 50 -> 30
      [] length >= 50 /\ length < 200 -> 60
      [] length >= 200 /\ length < 500 -> 85
      [] length >= 500 -> 95

\* the reference table for the tool usage score
RefToolUsage(count) ==
    CASE count = 0 -> 40
      [] count = 1 -> 70
      [] count \in {2, 3} -> 100
      [] count = 4 -> 75
      [] count >= 5 -> 50

SubScores(e) ==
    { e.metrics.response_speed, e.metrics.response_completeness,
      e.metrics.tool_usage_efficiency }

SubScoreSum(e) ==
    e.metrics.response_speed + e.metrics.response_completeness
        + e.metrics.tool_usage_efficiency

Abs(x) == IF x < 0 THEN -x ELSE x

\* C13: the overall_score of every evaluation (in hundredths) is the mean of
\* its three sub-scores rounded to 2 decimals, and lies between the smallest
\* and the largest sub-score.
C13_OverallIsRoundedMean ==
    \A i \in 1..Len(metrics) :
        LET e == metrics[i]
            o == e.overall_score
        IN  /\ 2 * Abs(3 * o - 100 * SubScoreSum(e)) <= 3
            /\ \A x \in SubScores(e) :
                   (\A y \in SubScores(e) : x <= y) => 100 * x <= o
            /\ \A x \in SubScores(e) :
                   (\A y \in SubScores(e) : x >= y) => o <= 100 * x
            /\ (e.metrics = [response_speed |-> 100, response_completeness |-> 95,
                             tool_usage_efficiency |-> 100]) => o = 9833

C13_Witness ==
    /\ metrics # <<>>
    /\ response_time = 1000000
    /\ Len(response) = 600
    /\ Len(evaluation.tools_used) = 2
    /\ evaluation.metrics = [response_speed |-> 100, response_completeness |-> 95,
                             tool_usage_efficiency |-> 100]
    /\ evaluation.overall_score = 9833

\* the names given to register so far
RegisteredNames == { registered[i] : i \in 1..Len(registered) }

\* get(name) of a never-registered name returned the absent value
GetOfUnknownIsAbsent ==
    (tool_obs.op = "get" /\ tool_obs.name \notin RegisteredNames) =>
        ~tool_obs.present

\* get leaves the registry as it was
GetChangesNothing == [][tool_obs'.op = "get" => tools' = tools]_vars

\* C14 as stated: get of a never-registered name returns the absent value and
\* the length of list_tools() equals the number of register calls performed.
C14_ListLengthIsRegistrations ==
    /\ GetOfUnknownIsAbsent
    /\ Len(list_tools(tools)) = Len(registered)

\* C14 amended: get of a never-registered name returns the absent value and
\* changes nothing, and the length of list_tools() equals the number of
\* distinct tool names registered, listed in order of first registration.
C14_ListLengthIsDistinctNames ==
    /\ [](/\ GetOfUnknownIsAbsent
          /\ Len(list_tools(tools)) = Cardinality(RegisteredNames)
          /\ \A i \in 1..Len(tools) : tools[i].name \in RegisteredNames
          /\ tool_obs.op = "list_tools" =>
                 tool_obs.listed = Cardinality(RegisteredNames))
    /\ GetChangesNothing

C14_Witness ==
    /\ registered = <<"web_search", "web_search">>
    /\ Len(list_tools(tools)) = 1
    /\ tool_obs.op = "get"
    /\ tool_obs.name = "nonexistent"
    /\ ~tool_obs.present

\* the operations that only read a tool or the registry
ReadOnlyToolOps == { "get", "list_tools", "get_all_stats", "get_stats" }

\* an execute step counts once and adds a non-negative time, on that tool only
ExecuteCountsOnce ==
    tool_obs'.op = "execute" =>
        LET i == ToolIndex(tools, tool_obs'.name)
        IN  /\ tools'[i].execution_count = tools[i].execution_count + 1
            /\ tools'[i].total_execution_time >= tools[i].total_execution_time
            /\ \A j \in 1..Len(tools) : j # i => tools'[j] = tools[j]

\* a read-only step leaves every tool as it was
ReadOnlyOpsChangeNothing ==
    tool_obs'.op \in ReadOnlyToolOps => tools' = tools

\* get_stats reports the tool's count, and an average of 0 while it is 0
StatsOfUnusedTool ==
    tool_obs.op = "get_stats" =>
        /\ tool_obs.executions = tools[ToolIndex(tools, tool_obs.name)].execution_count
        /\ (tool_obs.executions = 0 => tool_obs.avg_time = 0)

C16_MockDeterministic ==
    /\ \A i, j \in 1..Len(mock_calls) :
           mock_calls[i].prompt = mock_calls[j].prompt =>
               mock_calls[i].text = mock_calls[j].text
    /\ \A i \in 1..Len(mock_calls) : mock_calls[i].call_count = i
    /\ llm.call_count = Len(mock_calls)

C16_Witness ==
    /\ Len(mock_calls) = 3
    /\ mock_calls[1].prompt = "Explain quantum computing"
    /\ mock_calls[2].prompt = "Please SUMMARIZE this"
    /\ mock_calls[3].prompt = "Explain quantum computing"
    /\ mock_calls[3].text = mock_calls[1].text
    /\ mock_calls[3].text # mock_calls[2].text
    /\ StrIn("Explain quantum computing...", mock_calls[3].text)
    /\ llm.call_count = 3

\* the step is one turn of the interactive loop reading a line
ReadsLine == inputs_read' = inputs_read + 1

\* spellings of the control words among the lines typed
QuitSpellings == { "quit", "QUIT", "Quit", "exit", "EXIT", "Exit", "q", "Q" }
StatusSpellings == { "status", "Status", "STATUS" }

\* what research() and the tools write
ResearchState == <<messages, research_memory, tools, execution_log, metrics, llm>>

\* a turn on quit/exit/q ends the loop without research
QuitEndsLoop ==
    (ReadsLine /\ line' \in QuitSpellings) =>
        /\ main_pc' = "save"
        /\ research_calls' = research_calls
        /\ ResearchState' = ResearchState

\* a turn on status or a blank line changes nothing and prompts again
StatusAndBlankChangeNothing ==
    (ReadsLine /\ line' \in StatusSpellings \cup {""}) =>
        /\ main_pc' = "prompt"
        /\ research_calls' = research_calls
        /\ ResearchState' = ResearchState
        /\ pc' = "idle"

\* a turn on any other line calls research with that line
OtherInputCallsResearch ==
    (ReadsLine /\ line' \notin QuitSpellings \cup StatusSpellings \cup {""}) =>
        /\ main_pc' = "research"
        /\ research_calls' = Append(research_calls, line')

\* research runs only for the call made, once, on the query passed
OneResearchPerCall ==
    Demo = "interactive" =>
        /\ calls <= Len(research_calls)
        /\ Len(research_calls) <= calls + 1
        /\ main_pc = "prompt" => (calls = Len(research_calls) /\ pc = "idle")
        /\ pc # "idle" =>
               (main_pc = "research" /\ query = research_calls[Len(research_calls)])
        /\ Len(metrics) <= Len(research_calls)
        /\ \A i \in 1..Len(metrics) : metrics[i].query = research_calls[i]

\* C17: in the interactive loop quit/exit/q in any letter case end the loop;
\* status in any case and blank input never call research, leave conversation
\* memory, research memory, tool counters, the orchestrator log and the
\* evaluator log unchanged and prompt again; every other input causes exactly
\* one research call with that input.
C17_LoopCommands ==
    /\ []OneResearchPerCall
    /\ [][QuitEndsLoop /\ StatusAndBlankChangeNothing /\ OtherInputCallsResearch]_vars

C17_Witness ==
    /\ Demo = "interactive"
    /\ main_pc = "prompt"
    /\ inputs_read = 2
    /\ line = "Status"
    /\ research_calls = <<"tea">>
    /\ calls = 1
    /\ Len(messages) = 2
    /\ output[Len(output)] = "Avg Score: " \o ToString(metrics[1].overall_score)

\* C18: when the interactive loop has ended, by quit/exit/q or by an
\* interrupt, save_session has been invoked exactly once by the time the run
\* finishes, and never before the loop ended.
C18_SavedOnceOnExit ==
    Demo = "interactive" =>
        /\ main_pc \in {"start", "prompt", "research", "save"} => session_files = <<>>
        /\ main_pc = "done" =>
               /\ Len(session_files) = 1
               /\ session_files[1].conversation = MapToDict(messages)
               /\ session_files[1].evaluation.all_evaluations = metrics
               /\ output[Len(output)] = "Goodbye!"

C18_Witness ==
    /\ Demo = "interactive"
    /\ main_pc = "done"
    /\ Len(session_files) = 1
    /\ research_calls = <<"quit now">>
    /\ calls = 0
    /\ Len(messages) = 1
    /\ Len(execution_log) = 1

\* C19: when the first command-line argument is neither "interactive" nor
\* "vertex" the runner prints the usage message and does nothing else: no
\* agent is constructed, no research runs and no session file is written.
C19_UnknownModeOnlyUsage ==
    (Len(argv) > 0 /\ argv[1] \notin {"interactive", "vertex"}) =>
        /\ main_pc \in {"start", "done"}
        /\ ~agent_built
        /\ llm = NoClient
        /\ tools = NewToolRegistry
        /\ research_calls = <<>>
        /\ calls = 0 /\ pc = "idle"
        /\ messages = <<>>
        /\ session_files = <<>>
        /\ file = NoFile
        /\ main_pc = "done" =>
               output = << "banner", "Unknown mode: " \o argv[1],
                           "Usage: python main.py [interactive|vertex]" >>

C19_Witness ==
    /\ argv = <<"Interactive">>
    /\ main_pc = "done"
    /\ output[Len(output)] = "Usage: python main.py [interactive|vertex]"
    /\ ~agent_built

\* the kinds of step the script has reached
KindsReached ==
    { StepKind(diag.script, diag.steps[i]) : i \in 1..Len(diag.steps) }

\* C20: a diagnostic that authenticates with service-account.json, run with
\* that file absent, reports failure without reaching any credential-loading,
\* session-initialisation or network step.
C20_NoFileNoSteps ==
    (diag.script \in DiagScripts /\ ~diag.sa_file) =>
        /\ KindsReached = {}
        /\ diag.pc = "done" => diag.result = "False"

\* the lines of the checklist are among the lines printed
ChecklistPrinted ==
    \E i \in 1..Len(diag.output) :
        /\ i + Len(Checklist) - 1 <= Len(diag.output)
        /\ SubSeq(diag.output, i, i + Len(Checklist) - 1) = Checklist

\* C21: the endpoint probe tries its three endpoints in fixed order, issues no
\* request after the first HTTP 200 response, goes on to the next endpoint
\* after any other status or an exception, and prints the remediation
\* checklist on every run, whether or not an endpoint returned 200.
C21_ProbeOrderAndChecklist ==
    diag.script = "diagnose_api" =>
        /\ \A i \in 1..Len(diag.requests) :
               diag.requests[i].name = ProbeEndpoints[i].name
        /\ \A i \in 1..(Len(diag.requests) - 1) : diag.requests[i].status # "200"
        /\ diag.pc = "done" =>
               /\ ChecklistPrinted
               /\ \/ Len(diag.requests) = Len(ProbeEndpoints)
                  \/ diag.requests[Len(diag.requests)].status = "200"

\* positions of the execute_research entries of the orchestrator's log
ExecutePositions ==
    { i \in 1..Len(execution_log) : execution_log[i].action = "execute_research" }

\* the plan made just before the execute_research entry at position i
PlanBefore(i) == execution_log[i - 1].result

\* C22: what execute_research runs and returns depends only on the query and
\* the registry: two calls on the same registry with the same query return the
\* same steps, tools_used and findings, whatever the plans said.
C22_PlanIndependent ==
    \A i, j \in ExecutePositions :
        execution_log[i].result.query = execution_log[j].result.query =>
            /\ execution_log[i].result.steps = execution_log[j].result.steps
            /\ execution_log[i].result.tools_used = execution_log[j].result.tools_used
            /\ execution_log[i].result.findings = execution_log[j].result.findings

\* two calls with the same query whose plans differ in text and in the tools
\* they name, and which ran tools
C22_Witness ==
    \E i, j \in ExecutePositions :
        /\ i < j
        /\ execution_log[i].result.query = execution_log[j].result.query
        /\ PlanBefore(i).plan # PlanBefore(j).plan
        /\ PlanBefore(i).estimated_tools # PlanBefore(j).estimated_tools
        /\ execution_log[j].result.tools_used # <<>>

\* C23: for every query and every integer max_results, the count field of the
\* web_search result equals the number of records in its results list, and
\* that number does not exceed max_results.
C23_CountIsLength ==
    tool_obs.op = "web_search" =>
        /\ tool_obs.result.count = Len(tool_obs.result.results)
        /\ Len(tool_obs.result.results) <= tool_obs.max_results

\* the company a query mentions, when it mentions exactly one
Mentions(words, q) == \E w \in words : StrIn(w, q)
FinancialUrl(company) ==
    IF company = "nvidia" THEN "https://finance.yahoo.com/quote/NVDA"
    ELSE "https://finance.yahoo.com/quote/TSLA"

\* C24: a query that mentions a company term (nvidia/nvda or tesla/tsla)
\* together with a price/market term gets that company's financial results;
\* the same price/market terms count for Tesla as for NVIDIA.
C24_SameTermsForBothCompanies ==
    (tool_obs.op = "web_search" /\ tool_obs.max_results >= 1) =>
        LET q == tool_obs.query
            nvidia == Mentions({"NVIDIA", "nvda"}, q)
            tesla == Mentions({"Tesla", "TSLA"}, q)
            market == Mentions({"azioni", "stock", "prezzo", "price", "andamento"}, q)
            first == tool_obs.result.results[1].url
        IN  /\ (nvidia /\ ~tesla /\ market) => first = FinancialUrl("nvidia")
            /\ (tesla /\ ~nvidia /\ market) => first = FinancialUrl("tesla")

\* the line the claim expects for finding number i
ExpectedFindingLine(i, finding) ==
    LET has_source == "source" \in DOMAIN finding /\ finding.source # None
    IN  ToString(i) \o ". ["
        \o (IF has_source THEN finding.source ELSE "Unknown") \o "] "
        \o (IF "content" \in DOMAIN finding THEN finding.content ELSE "")

\* C25: synthesize_findings renders finding number i, counting from 1 in input
\* order, as "i. [S] content", S being the finding's source when it has one
\* and "Unknown" when the source is missing or None.
C25_UnknownWhenNoSource ==
    llm_obs.op = "generate" =>
        \A i \in 1..Len(execution_results.findings) :
            StrIn(ExpectedFindingLine(i, execution_results.findings[i]), llm_obs.prompt)

\* the operation whose return value the state holds
LastOp(r) == IF "op" \in DOMAIN r THEN r.op ELSE "none"

\* evaluate_response appends exactly one record and keeps the earlier ones
EvaluateAppendsOne ==
    LastOp(returned') = "evaluate_response" =>
        /\ Len(metrics') = Len(metrics) + 1
        /\ SubSeq(metrics', 1, Len(metrics)) = metrics
        /\ metrics'[Len(metrics')] = returned'.value

\* the three reading operations leave the log as it was
ReadsLeaveLog ==
    LastOp(returned') \in { "get_session_stats", "get_detailed_report", "save_report" } =>
        metrics' = metrics

\* get_session_stats answers {evaluations: 0} exactly when nothing was
\* evaluated since construction or the last reset, else counts the calls
StatsCountCalls ==
    LastOp(returned) = "get_session_stats" =>
        /\ (returned.value = [evaluations |-> 0]) <=> (calls = 0)
        /\ calls > 0 => returned.value.total_evaluations = calls

\* C26: between resets the evaluator's log only grows: evaluate_response
\* appends exactly one record and changes no earlier one; get_session_stats,
\* get_detailed_report and save_report change nothing; get_session_stats
\* returns {evaluations: 0} exactly when no evaluate_response happened since
\* construction or the last reset, and otherwise total_evaluations is the
\* number of such calls.
C26_LogAppendOnly ==
    /\ []StatsCountCalls
    /\ [][EvaluateAppendsOne /\ ReadsLeaveLog]_vars

\* a second evaluation was appended, the stats read, the log reset and read again
C26_Witness ==
    /\ LastOp(returned) = "get_session_stats"
    /\ calls = 2
    /\ Len(metrics) = 2
    /\ metrics[1] # metrics[2]
    /\ clock > 2

\* sub is lst with some elements left out
RECURSIVE IsSubsequence(_, _)
IsSubsequence(sub, lst) ==
    IF sub = <<>> THEN TRUE
    ELSE IF lst = <<>> THEN FALSE
    ELSE IF Head(sub) = Head(lst) THEN IsSubsequence(Tail(sub), Tail(lst))
    ELSE IsSubsequence(sub, Tail(lst))

\* C27: whatever subset of the three built-in tools is registered,
\* execute_research indexes only results that exist, its tools_used has no
\* duplicates and is a subsequence of web_search, document_reader,
\* data_analysis; document_reader and data_analysis appear only after a
\* web_search that returned a result; the tool-usage score of every agent
\* evaluation is 40, 70 or 100.
C27_ToolsUsedSubsequence ==
    /\ \A i \in ExecuteEntries :
           LET r == execution_log[i].result
           IN  /\ NoDuplicates(r.tools_used)
               /\ IsSubsequence(r.tools_used, DefaultToolNames)
               /\ r.tools_used = [k \in 1..Len(r.steps) |-> r.steps[k].tool]
               /\ (\E k \in 1..Len(r.tools_used) :
                       r.tools_used[k] \in {"document_reader", "data_analysis"}) =>
                      /\ r.tools_used[1] = "web_search"
                      /\ Len(r.steps[1].result.results) >= 1
    /\ \A i \in 1..Len(metrics) :
           metrics[i].metrics.tool_usage_efficiency \in {40, 70, 100}

\* an agent without document_reader was evaluated after running two tools
C27_Witness ==
    /\ ToolNames(tools) = <<"web_search", "data_analysis">>
    /\ metrics # <<>>
    /\ metrics[1].tools_used = <<"web_search", "data_analysis">>
    /\ metrics[1].metrics.tool_usage_efficiency = 100

\* the messages kept are user, assistant, user, ... from the first one on
Alternating(msgs) ==
    \A i \in 1..Len(msgs) :
        msgs[i].role = (IF i % 2 = 1 THEN "user" ELSE "assistant")

\* C28: when research has returned k times on an agent whose conversation
\* memory (at most 50 messages) only research writes, the memory holds
\* min(2k, 50) messages, as many from the user as from the assistant,
\* alternating from a user message on, so that every assistant reply kept is
\* preceded by the query it answers.
C28_MemoryAlternates ==
    pc = "idle" =>
        /\ Len(messages) = (IF 2 * calls < 50 THEN 2 * calls ELSE 50)
        /\ Len(SelectRole(messages, "user")) = Len(SelectRole(messages, "assistant"))
        /\ Alternating(messages)
        /\ Len(added) = 2 * calls
        /\ messages = SubSeq(added, Len(added) - Len(messages) + 1, Len(added))
        /\ \A i \in 1..Len(added) :
               i % 2 = 0 => added[i - 1].role = "user" /\ added[i].role = "assistant"

\* the call that overflows the memory has returned
C28_Witness ==
    /\ pc = "idle"
    /\ calls = 26
    /\ Len(messages) = 50
    /\ Len(added) = 52
    /\ messages[1] = added[3]

\* C29: for a mock-mode agent with the default registry, after k completed
\* research calls each of the three tools has execution_count k, the
\* orchestrator's log has 2k entries alternating plan_research and
\* execute_research, the mock client's call_count is 3k, the evaluator's log
\* has k records, and each tool's count in tool_usage_breakdown equals its
\* execution_count.
C29_CountersInLockstep ==
    (pc = "idle" /\ llm.kind = "mock" /\ ToolNames(tools) = DefaultToolNames) =>
        /\ \A i \in 1..Len(tools) : tools[i].execution_count = calls
        /\ Len(execution_log) = 2 * calls
        /\ \A i \in 1..Len(execution_log) :
               execution_log[i].action =
                   (IF i % 2 = 1 THEN "plan_research" ELSE "execute_research")
        /\ llm.call_count = 3 * calls
        /\ Len(metrics) = calls
        /\ calls > 0 =>
               LET breakdown == get_detailed_report(metrics).tool_usage_breakdown
               IN  /\ DOMAIN breakdown = { tools[i].name : i \in 1..Len(tools) }
                   /\ \A i \in 1..Len(tools) :
                          breakdown[tools[i].name] = tools[i].execution_count

\* the third call of such an agent has returned
C29_Witness ==
    /\ pc = "idle"
    /\ llm.kind = "mock"
    /\ ToolNames(tools) = DefaultToolNames
    /\ calls = 3
    /\ llm.call_count = 9
    /\ Len(execution_log) = 6

\* the prompt mentions "search", in whatever case
MentionsSearch(prompt) == StrIn("search", lower(prompt))

\* the plans logged so far
PlanEntries == { i \in 1..Len(execution_log) : execution_log[i].action = "plan_research" }

\* C30: in mock mode the planning, synthesis and final-response prompts all
\* contain "search", so the mock answers each with its "key findings"
\* template: plan text, synthesis and final response are that one text for
\* every query, and estimated_tools is always empty.
C30_MockAlwaysKeyFindings ==
    llm.kind = "mock" =>
        /\ pc = "plan_research" => MentionsSearch(PlanningPrompt(tools, query))
        /\ (pc = "synthesize" /\ execution_results.findings # <<>>) =>
               MentionsSearch(SynthesisPrompt(execution_results.findings))
        /\ pc = "generate_response" =>
               MentionsSearch(ResponsePrompt(query, synthesis,
                                             get_context_string(messages, 5)))
        /\ \A i \in PlanEntries :
               /\ execution_log[i].result.plan = MockSearchText
               /\ execution_log[i].result.estimated_tools = <<>>
        /\ StrIn("key findings", MockSearchText)
        /\ calls > 0 =>
               /\ returned.response = MockSearchText
               /\ returned.execution.findings # <<>> => returned.synthesis = MockSearchText
               /\ ToolNames(tools) = DefaultToolNames => returned.synthesis = MockSearchText

\* a mock-mode agent has answered two different queries with the same text
C30_Witness ==
    /\ llm.kind = "mock"
    /\ ToolNames(tools) = DefaultToolNames
    /\ pc = "idle"
    /\ calls = 2
    /\ messages[1].content # messages[3].content
    /\ messages[2].content = messages[4].content
    /\ returned.synthesis = returned.response

====
